---- MODULE Spec2Model ----
(***************************************************************************)
(* The assistant-bot web client as a state machine.                        *)
(*                                                                         *)
(*   - streamMessage  (lib/api, src/frontend/src/App.tsx 346-425): the     *)
(*     async generator that reads the SSE response of POST /chat/stream.   *)
(*   - ChatBox        (src/frontend/src/components/DocumentManager.tsx     *)
(*     489-660): the message list, the submit handler that consumes the    *)
(*     generator, and the effect that loads a session's history.           *)
(*   - DocumentManager (same file, 37-188): upload, URL ingestion and the  *)
(*     document list.                                                      *)
(*                                                                         *)
(* JavaScript strings are TLA+ strings; trim, startsWith, slice and split  *)
(* are computed character by character.  One action is one macrotask of    *)
(* the event loop: a handler up to its first await on the network, or the  *)
(* continuation that runs when a network promise settles.                  *)
(***************************************************************************)
EXTENDS Integers, Sequences, FiniteSets, TLC

\* ------------------------------------------------------------------ bounds

\* SSE events in one response body
MaxEvents == 2
\* accepted submits of one ChatBox
MaxSubmits == 1
\* getSession calls of the history effect that may be pending at once
MaxLoads == 1
\* uploads, URL ingestions and refreshes of one DocumentManager
MaxDocOps == 2
\* changes of ChatBox's sessionId prop
MaxSwitches == 2
\* handleSubmit calls that return at its guard
MaxRejects == 1
\* calls of the operations useSessions returns
MaxHookOps == 2
\* documents a list response holds
MaxListDocs == 10

\* ------------------------------------------------------- JavaScript values

Undefined == "<undefined>"
Null == "<null>"
NoSession == "<none>"
SessionIds == {"s1", "s2"}

\* Boolean coercion of a string-or-undefined value
Truthy(v) == v # Undefined /\ v # Null /\ v # ""

IsSpace(c) == c \in {" ", "\n", "\r", "\t"}

RECURSIVE TrimStart(_)
TrimStart(s) ==
    IF Len(s) > 0 /\ IsSpace(SubSeq(s, 1, 1))
    THEN TrimStart(SubSeq(s, 2, Len(s)))
    ELSE s

RECURSIVE TrimEnd(_)
TrimEnd(s) ==
    IF Len(s) > 0 /\ IsSpace(SubSeq(s, Len(s), Len(s)))
    THEN TrimEnd(SubSeq(s, 1, Len(s) - 1))
    ELSE s

\* String.prototype.trim
Trim(s) == TrimEnd(TrimStart(s))

\* String.prototype.startsWith
StartsWith(s, p) == Len(s) >= Len(p) /\ SubSeq(s, 1, Len(p)) = p

\* String.prototype.slice(n), n >= 0
Slice(s, n) == SubSeq(s, n + 1, Len(s))

\* String.prototype.includes
Includes(s, p) ==
    \E i \in 1..(Len(s) + 1) :
        i + Len(p) - 1 <= Len(s) /\ SubSeq(s, i, i + Len(p) - 1) = p

\* position of the first "\n" of s, 0 when there is none
FirstNewline(s) ==
    LET at == {i \in 1..Len(s) : SubSeq(s, i, i) = "\n"}
    IN  IF at = {} THEN 0 ELSE CHOOSE i \in at : \A j \in at : i <= j

\* s.split("\n")
RECURSIVE SplitLines(_)
SplitLines(s) ==
    LET i == FirstNewline(s)
    IN  IF i = 0
        THEN <<s>>
        ELSE <<SubSeq(s, 1, i - 1)>> \o SplitLines(SubSeq(s, i + 1, Len(s)))

\* ------------------------------------------------------------ JSON texts

\* the characters of t with every double quote escaped, as JSON.stringify does
RECURSIVE Escape(_)
Escape(t) ==
    IF Len(t) = 0 THEN ""
    ELSE (IF SubSeq(t, 1, 1) = "\"" THEN "\\\"" ELSE SubSeq(t, 1, 1))
         \o Escape(SubSeq(t, 2, Len(t)))

SessionJson(s) == "{\"session_id\":\"" \o s \o "\"}"
TokenJson(t) == "{\"token\":\"" \o Escape(t) \o "\"}"
ErrorJson(m) == "{\"error\":\"" \o Escape(m) \o "\"}"
DoneJson == "{}"

\* the texts a token event may carry: plain text, text that is itself a JSON
\* number, and text that is itself a JSON object naming a session
TokenTexts == {"a", "1", SessionJson("s2")}
ErrorMessages == {"boom"}
MetaSessions == {"s2"}

IsDigits(t) ==
    Len(t) > 0 /\ \A i \in 1..Len(t) :
        SubSeq(t, i, i) \in {"0", "1", "2", "3", "4", "5", "6", "7", "8", "9"}


\* a parsed JSON object, by the fields the client reads
JsonObject(token, error, session_id) ==
    [valid |-> TRUE, token |-> token, error |-> error, session_id |-> session_id]

\* JSON.parse(data) of streamMessage (App.tsx 409) on the payload of a data
\* line: the object the text encodes, or valid = FALSE where JSON.parse throws
JsonParseData(data) ==
    LET d == Trim(data)
    IN  IF \E t \in TokenTexts : d = TokenJson(t)
        THEN JsonObject(CHOOSE t \in TokenTexts : d = TokenJson(t), Undefined, Undefined)
        ELSE IF \E m \in ErrorMessages : d = ErrorJson(m)
        THEN JsonObject(Undefined, CHOOSE m \in ErrorMessages : d = ErrorJson(m), Undefined)
        ELSE IF \E s \in SessionIds : d = SessionJson(s)
        THEN JsonObject(Undefined, Undefined, CHOOSE s \in SessionIds : d = SessionJson(s))
        ELSE IF d = DoneJson
        THEN JsonObject(Undefined, Undefined, Undefined)
        ELSE [valid |-> FALSE, token |-> Undefined, error |-> Undefined,
              session_id |-> Undefined]

\* JSON.parse(token) of ChatBox (DocumentManager.tsx 615) followed by the read of
\* parsed.session_id (616): "threw" where either throws (a SyntaxError for text
\* that is no JSON, a TypeError for the value null), else the session_id read
JsonParseToken(token) ==
    LET d == Trim(token)
    IN  IF \E s \in SessionIds : d = SessionJson(s)
        THEN [threw |-> FALSE,
              session_id |-> CHOOSE s \in SessionIds : d = SessionJson(s)]
        ELSE IF IsDigits(d) \/ d \in {"true", "false"}
        THEN [threw |-> FALSE, session_id |-> Undefined]
        ELSE [threw |-> TRUE, session_id |-> Undefined]

\* ------------------------------------------------------- response bodies

\* A response body is the sequence of the pieces the network may deliver it in:
\* reader.read() returns one or more consecutive pieces, so the cuts between
\* pieces are the places where a chunk may end.  One server-sent event is cut
\* inside its event line, after its event line, inside its data payload, and
\* before the blank line that ends it.
SseEvent(name, data) ==
    LET half == Len(data) \div 2
    IN  <<"event: ",
          name \o "\n",
          "data: " \o SubSeq(data, 1, half),
          SubSeq(data, half + 1, Len(data)) \o "\n",
          "\n">>

MetadataEvent(s) == SseEvent("metadata", SessionJson(s))
TokenEvent(t) == SseEvent("token", TokenJson(t))
DoneEvent == SseEvent("done", DoneJson)
ErrorEvent(m) == SseEvent("error", ErrorJson(m))

SseEvents ==
    {MetadataEvent(s) : s \in MetaSessions}
    \cup {TokenEvent(t) : t \in TokenTexts}
    \cup {DoneEvent}
    \cup {ErrorEvent(m) : m \in ErrorMessages}

\* the bodies of exactly n events
RECURSIVE BodiesOf(_)
BodiesOf(n) ==
    IF n = 0 THEN {<<>>}
    ELSE {e \o b : e \in SseEvents, b \in BodiesOf(n - 1)}

\* every response body of at most MaxEvents events, in any order
Bodies == UNION {BodiesOf(n) : n \in 0..MaxEvents}

\* the text of the pieces from..to of a body, as TextDecoder returns it
RECURSIVE Decode(_, _, _)
Decode(body, from, to) ==
    IF from > to THEN "" ELSE body[from] \o Decode(body, from + 1, to)

\* ---------------------------------------------------------------- errors

\* what fetch() or reader.read() rejects with, and what streamMessage throws
FetchFailed == [type |-> "TypeError", message |-> "Failed to fetch"]
BodyStreamError == [type |-> "TypeError", message |-> "network error"]
ApiError == [type |-> "Error", message |-> "API Error 500: boom"]

\* isNetworkError (DocumentManager.tsx 479-487)
isNetworkError(err) ==
    /\ err.type = "TypeError"
    /\ (Includes(err.message, "Failed to fetch") \/ Includes(err.message, "NetworkError"))

\* the notice of DocumentManager.tsx 566 and 649, in English
OfflineNotice == "Backend not connected, start the backend service first."


\* ------------------------------------------------------------------ state

VARIABLES
    \* ChatBox props and React state (DocumentManager.tsx 489-504)
    sessionId,            \* prop: the selected session, NoSession when undefined
    messages,             \* the displayed list, each [role, content, timestamp, has_image]
    input,                \* the textarea's text
    selectedImageData,
    selectedImageFormat,
    isLoading,
    isLoadingHistory,
    isBackendAvailable,
    \* the running handleSubmit call and the streamMessage generator it consumes
    pc,                   \* "idle", "timer" (offline notice pending), "fetch", "stream"
    reqSessionId,         \* sessionId as the handler's closure captured it
    fullResponse,         \* handleSubmit's local (605)
    newSessionId,         \* handleSubmit's local (606), Undefined for null
    buffer,               \* streamMessage's local (387)
    currentEvent,         \* streamMessage's local (388)
    sessionIdRef,         \* streamMessage's local (389)
    \* the network
    response,             \* the body of the stream response, in pieces
    readPos,              \* how many of its pieces reader.read() has returned
    historyLoads,         \* pending getSession(s) calls of the history effect: s -> count
    \* what an observer of the component records
    requests,             \* the bodies POSTed to /chat/stream, in order
    trace,                \* the generator's steps for the current request, in order:
                          \* "metadata" (411), "yield" (413), "return" (415),
                          \* "error" (417), "end" (393, then 425), "throw" (an
                          \* error that leaves the generator)
    outcome,              \* how the last handleSubmit ended
    sessionChangeCalls,   \* the arguments of the onSessionChange calls
    refreshCalls,         \* the number of onRefreshSessions calls
    nsub,                 \* accepted submits, the logical clock of new Date()
    nswitch,              \* changes of the sessionId prop
    rejects               \* isLoading at each handleSubmit call that returned at 557

chatVars ==
    <<sessionId, messages, input, selectedImageData, selectedImageFormat, isLoading,
      isLoadingHistory, isBackendAvailable, pc, reqSessionId, fullResponse,
      newSessionId, buffer, currentEvent, sessionIdRef, response, readPos,
      historyLoads, requests, trace, outcome, sessionChangeCalls, refreshCalls,
      nsub, nswitch, rejects>>

VARIABLES
    \* DocumentManager's React state (DocumentManager.tsx 38-51)
    documents,            \* the listed documents, by document_id
    totalCount,
    totalChunks,
    docsLoading,          \* isLoading
    isUploading,
    isAddingUrl,
    addDialogOpen,
    docError,             \* error
    successMsg,
    urlInput,
    \* the running handlers
    uploadPc,             \* handleFileSelect: "idle", "upload", "reload"
    uploadFile,           \* its file's name
    urlPc,                \* handleAddUrl: "idle", "ingest", "reload"
    urlSent,              \* its local url
    refreshLoads,         \* loadDocuments calls of the mount effect and the refresh
                          \* button whose getDocumentList is pending
    \* what an observer records
    ingestRequests,       \* the urls POSTed to /documents/ingest-url, in order
    ndocops               \* operations started

docVars ==
    <<documents, totalCount, totalChunks, docsLoading, isUploading, isAddingUrl,
      addDialogOpen, docError, successMsg, urlInput, uploadPc, uploadFile, urlPc,
      urlSent, refreshLoads, ingestRequests, ndocops>>

VARIABLES
    \* useSessions' React state (DocumentManager.tsx 920-925) and localStorage
    sessions,             \* the listed sessions, by id
    currentSessionId,     \* Null or an id
    currentSession,       \* Null or the session_id of the loaded SessionDetail
    sessionsLoading,      \* isLoading
    sessionsError,        \* error
    sessionsBackendAvailable,  \* isBackendAvailable
    storedSessionId,      \* localStorage[CURRENT_SESSION_KEY], Null when absent
    \* the backend's Session Store as the session endpoints show it
    srvSessions,          \* the ids of the stored sessions
    \* the running calls
    listLoads,            \* pending getSessions calls of free-standing loadSessions
    detailLoads,          \* pending getSession(s) calls of loadCurrentSession: s -> count
    delPc,                \* removeSession: "idle", "delete", "list"
    delId,                \* its argument
    delClosure,           \* currentSessionId as its closure captured it
    createPc,             \* createNewSession: "idle", "create", "list"
    clearPc,              \* clearSessions: "idle", "clear"
    renPc,                \* renameSession: "idle", "rename", "list"
    mountTimer,           \* whether the timer of the init effect (1089-1091) is pending
    \* what an observer records
    apiCalls,             \* the <<method, url>> of the requests the hook has sent
    nhookops              \* operations started

hookVars ==
    <<sessions, currentSessionId, currentSession, sessionsLoading, sessionsError,
      sessionsBackendAvailable, storedSessionId, srvSessions, listLoads, detailLoads,
      delPc, delId, delClosure, createPc, clearPc, renPc, mountTimer, apiCalls,
      nhookops>>

VARIABLES
    \* the engine behind the endpoints: one request of the Generation Dispatcher
    genState,             \* "None", "Pending", "Streaming", "Completed", "Failed", "Cancelled"
    stage,                \* "idle", "rewrite", "assemble", "generate", "end"
    userMessage,          \* the incoming message
    rewriteFailed,        \* whether the rewrite call failed, timed out or came back empty
    standalone,           \* the standalone query
    passages,             \* the ranked passages handed to the Context Assembler
    included,             \* the passages of the assembled prompt
    events,               \* the events sent to the caller, in order
    \* the Knowledge Index
    kiDocs,               \* document -> "absent", "ready", "failed"
    kiCount,              \* document -> its chunk_count
    kiChunks,             \* the chunk records, each <<document, n>>
    searchSnapshot,       \* the chunk records the last search read
    searchResult,         \* the ranked chunks it returned
    preStats,             \* stats() before the last index call
    lastIndexed,          \* the document of the last index call when nothing
                          \* has changed the index since, else NoDoc
    nengops               \* index operations started

engVars ==
    <<genState, stage, userMessage, rewriteFailed, standalone, passages, included,
      events, kiDocs, kiCount, kiChunks, searchSnapshot, searchResult, preStats,
      lastIndexed, nengops>>

VARIABLES
    \* DocumentManager's list: pagination, sorting (55-57) and deletion (41-45)
    page,
    sortType,             \* "newest", "oldest", "name"
    isDeleting,           \* Null or the id being deleted
    deleteConfirmOpen,
    docToDelete,          \* Null or an id
    docDelPc,             \* handleDelete: "idle", "delete", "reload"
    \* what an observer records
    clickedDoc,           \* the document whose delete button was clicked last
    deleteRequests        \* the ids sent with DELETE /documents/<id>, in order

deleteVars ==
    <<isDeleting, deleteConfirmOpen, docToDelete, docDelPc, clickedDoc, deleteRequests>>

listVars == <<page, sortType, deleteVars>>

vars == <<chatVars, docVars, listVars, hookVars, engVars>>

\* ------------------------------------------------- ChatBox: one token

Message(role, content, timestamp, has_image) ==
    [role |-> role, content |-> content, timestamp |-> timestamp,
     has_image |-> has_image]

\* the updater of setMessages at 624-631 and 644-653: a copy of prev whose last
\* element has the given content.  On an empty list the assignment to index -1
\* adds no element.
SetLastContent(prev, content) ==
    IF Len(prev) = 0 THEN prev
    ELSE [prev EXCEPT ![Len(prev)].content = content]

\* the body of the for-await loop of handleSubmit (614-632) for one token; g
\* carries the locals and the state it updates
ChatOnToken(g, token) ==
    LET parsed == JsonParseToken(token)
    IN  IF parsed.threw
        THEN [g EXCEPT !.fullResponse = @ \o token,
                       !.messages = SetLastContent(@, g.fullResponse \o token)]
        ELSE IF Truthy(parsed.session_id)
        THEN [g EXCEPT !.newSessionId = parsed.session_id,
                       !.calls = IF parsed.session_id # reqSessionId
                                 THEN Append(@, parsed.session_id)
                                 ELSE @]
        ELSE g

\* ------------------------------------------- streamMessage: one data line

TraceEvent(k, v) == [k |-> k, v |-> v]

\* yield (413): the consumer's loop body runs before the generator resumes
GenYield(g, token) ==
    ChatOnToken([g EXCEPT !.trace = Append(@, TraceEvent("yield", token))], token)

\* a return that records itself but lets the for loop go on
GenReturnGoesOn(g) ==
    [g EXCEPT !.trace = Append(@, TraceEvent("return", ""))]

\* return (415): the generator is finished
GenReturn(g) ==
    [g EXCEPT !.returned = TRUE, !.trace = Append(@, TraceEvent("return", ""))]

\* throw new Error(...) (417) inside the try of 408: the catch of 419 receives
\* it, logs it, and the for loop goes on with the next line
GenThrowInTry(g, message) ==
    [g EXCEPT !.trace = Append(@, TraceEvent("error", message))]

\* the catch of 419-421 after JSON.parse threw: it logs, and the for loop goes
\* on with the next line
GenCatchForgetsEvent(g) == [g EXCEPT !.currentEvent = ""]
GenCatch(g) == g

\* lines 407-421
GenDataLine(g, data) ==
    LET parsed == JsonParseData(data)
    IN  IF ~parsed.valid THEN GenCatch(g)
        ELSE IF g.currentEvent = "metadata"
        THEN [g EXCEPT !.sessionIdRef = parsed.session_id,
                       !.trace = Append(@, TraceEvent("metadata", parsed.session_id))]
        ELSE IF g.currentEvent = "token"
        THEN GenYield(g, IF Truthy(parsed.token) THEN parsed.token ELSE "")
        ELSE IF g.currentEvent = "done"
        THEN GenReturn(g)
        ELSE IF g.currentEvent = "error"
        THEN GenThrowInTry(g, IF Truthy(parsed.error) THEN parsed.error
                                 ELSE "Unknown error")
        ELSE g

\* the body of the for loop (400-422) for one line
GenLine(g, line) ==
    IF Trim(line) = "" THEN g
    ELSE IF StartsWith(line, "event: ")
    THEN [g EXCEPT !.currentEvent = Trim(Slice(line, 7))]
    ELSE IF StartsWith(line, "data: ")
    THEN GenDataLine(g, Slice(line, 6))
    ELSE g

\* the for loop (399-423) over the complete lines of one chunk; a return ends it
RECURSIVE GenLines(_, _)
GenLines(g, lines) ==
    IF Len(lines) = 0 \/ g.returned THEN g
    ELSE GenLines(GenLine(g, Head(lines)), Tail(lines))


\* ------------------------------------------------------- ChatBox: inputs

\* what the user may have typed, and the image the uploader may hand over
Inputs == {"", " ", "hi"}
Images == {<<"img", "jpeg">>}

\* what GET /chat/history/<id> may answer: the stored messages of a session
HistoryMessages ==
    <<Message("user", "q", 0, FALSE), Message("assistant", "h", 0, FALSE)>>
Histories == {<<>>, HistoryMessages}

NotFoundError == [type |-> "Error", message |-> "Failed to fetch session: Not Found"]

NoLoads == [s \in SessionIds |-> 0]
PendingLoads == historyLoads["s1"] + historyLoads["s2"]

\* the locals of a handleSubmit call that is not running
IdleLocals ==
    /\ pc' = "idle"
    /\ reqSessionId' = NoSession
    /\ fullResponse' = ""
    /\ newSessionId' = Undefined
    /\ buffer' = ""
    /\ currentEvent' = ""
    /\ sessionIdRef' = NoSession

\* the state after ChatBox has mounted with sessionId = s and its effect
\* (506-543) has run once
InitChat(s) ==
    /\ sessionId = s
    /\ messages = <<>>
    /\ input = ""
    /\ selectedImageData = ""
    /\ selectedImageFormat = ""
    /\ isLoading = FALSE
    /\ isLoadingHistory = (s # NoSession)
    /\ isBackendAvailable = TRUE
    /\ pc = "idle"
    /\ reqSessionId = NoSession
    /\ fullResponse = ""
    /\ newSessionId = Undefined
    /\ buffer = ""
    /\ currentEvent = ""
    /\ sessionIdRef = NoSession
    /\ response = <<>>
    /\ readPos = 0
    /\ historyLoads = [x \in SessionIds |-> IF x = s THEN 1 ELSE 0]
    /\ requests = <<>>
    /\ trace = <<>>
    /\ outcome = "none"
    /\ sessionChangeCalls = <<>>
    /\ refreshCalls = 0
    /\ nsub = 0
    /\ nswitch = 0
    /\ rejects = <<>>

\* the textarea's onChange (851); the textarea is disabled at 859
TypeInput(v) ==
    /\ ~isLoading /\ isBackendAvailable
    /\ v # input
    /\ input' = v
    /\ UNCHANGED <<docVars, listVars, hookVars, engVars>>
    /\ UNCHANGED <<sessionId, messages, selectedImageData, selectedImageFormat,
                   isLoading, isLoadingHistory, isBackendAvailable, pc, reqSessionId,
                   fullResponse, newSessionId, buffer, currentEvent, sessionIdRef,
                   response, readPos, historyLoads, requests, trace, outcome,
                   sessionChangeCalls, refreshCalls, nsub, nswitch, rejects>>

\* the uploader's onImageSelect (840-843); the uploader is disabled at 844
SelectImage(img) ==
    /\ ~isLoading /\ isBackendAvailable
    /\ selectedImageData # img[1]
    /\ selectedImageData' = img[1]
    /\ selectedImageFormat' = img[2]
    /\ UNCHANGED <<docVars, listVars, hookVars, engVars>>
    /\ UNCHANGED <<sessionId, messages, input, isLoading, isLoadingHistory,
                   isBackendAvailable, pc, reqSessionId, fullResponse, newSessionId,
                   buffer, currentEvent, sessionIdRef, response, readPos,
                   historyLoads, requests, trace, outcome, sessionChangeCalls,
                   refreshCalls, nsub, nswitch, rejects>>

\* ------------------------------------------------- ChatBox: handleSubmit

\* the request body streamMessage builds (352-364)
RequestBody(message, sid, imageData, imageFormat) ==
    LET hasImage == Truthy(imageData) /\ Truthy(Trim(imageData))
    IN  [message |-> IF Truthy(Trim(message)) \/ hasImage THEN Trim(message) ELSE " ",
         session_id |-> sid,
         image |-> IF hasImage THEN imageData ELSE Undefined,
         image_format |-> IF hasImage
                          THEN (IF Truthy(imageFormat) THEN imageFormat ELSE "png")
                          ELSE Undefined]

\* the guard of 557
SubmitRejectedWhenLoading == isLoading
SubmitRejected == (~Truthy(Trim(input)) /\ ~Truthy(selectedImageData)) \/ isLoading

\* handleSubmit up to its first await (555-613, and streamMessage 352-372)
handleSubmit ==
    IF SubmitRejected
    THEN /\ Len(rejects) < MaxRejects
         /\ rejects' = Append(rejects, isLoading)
         /\ UNCHANGED <<docVars, listVars, hookVars, engVars>>
         /\ UNCHANGED <<sessionId, messages, input, selectedImageData,
                        selectedImageFormat, isLoading, isLoadingHistory,
                        isBackendAvailable, pc, reqSessionId, fullResponse,
                        newSessionId, buffer, currentEvent, sessionIdRef, response,
                        readPos, historyLoads, requests, trace, outcome,
                        sessionChangeCalls, refreshCalls, nsub, nswitch>>
    ELSE
         /\ input' = ""
         /\ selectedImageData' = ""
         /\ selectedImageFormat' = ""
         /\ isLoading' = TRUE
         /\ trace' = <<>>
         /\ outcome' = "none"
         /\ response' = <<>>
         /\ readPos' = 0
         /\ IF ~isBackendAvailable
            THEN /\ pc' = "timer"
                 /\ UNCHANGED <<messages, reqSessionId, requests, nsub>>
            ELSE /\ nsub < MaxSubmits
                 /\ nsub' = nsub + 1
                 /\ messages' = messages
                        \o <<Message("user", Trim(input), nsub + 1, Truthy(selectedImageData)),
                             Message("assistant", "", nsub + 1, FALSE)>>
                 /\ pc' = "fetch"
                 /\ reqSessionId' = sessionId
                 /\ requests' = Append(requests,
                        RequestBody(Trim(input), sessionId, selectedImageData,
                                    selectedImageFormat))
         /\ UNCHANGED <<docVars, listVars, hookVars, engVars>>
         /\ UNCHANGED <<sessionId, isLoadingHistory, isBackendAvailable, fullResponse,
                        newSessionId, buffer, currentEvent, sessionIdRef, historyLoads,
                        sessionChangeCalls, refreshCalls, nswitch, rejects>>

\* the timer of 561-571 fires
OfflineNoticeTimer ==
    /\ pc = "timer"
    /\ messages' = Append(messages, Message("assistant", OfflineNotice, nsub, FALSE))
    /\ isLoading' = FALSE
    /\ pc' = "idle"
    /\ outcome' = "notice"
    /\ UNCHANGED <<docVars, listVars, hookVars, engVars>>
    /\ UNCHANGED <<sessionId, input, selectedImageData, selectedImageFormat,
                   isLoadingHistory, isBackendAvailable, reqSessionId, fullResponse,
                   newSessionId, buffer, currentEvent, sessionIdRef, response, readPos,
                   historyLoads, requests, trace, sessionChangeCalls, refreshCalls,
                   nsub, nswitch, rejects>>


\* the text handleSubmit shows for a caught error (648-650)
ErrorContent(err) ==
    IF isNetworkError(err) THEN OfflineNotice ELSE "Error: " \o err.message

\* the for-await loop ended normally: 635-639 and the finally of 654-659
SubmitCompleted(msgs, calls, tr) ==
    /\ messages' = msgs
    /\ sessionChangeCalls' = calls
    /\ trace' = tr
    /\ isBackendAvailable' = TRUE
    /\ refreshCalls' = refreshCalls + 1
    /\ isLoading' = FALSE
    /\ outcome' = "completed"
    /\ IdleLocals

\* streamMessage threw err: the catch of 640-653 and the finally of 654-659
SubmitFailedStaysLoading(err) ==
    /\ messages' = SetLastContent(messages, ErrorContent(err))
    /\ trace' = Append(trace, TraceEvent("throw", err.message))
    /\ isBackendAvailable' = (IF isNetworkError(err) THEN FALSE ELSE isBackendAvailable)
    /\ isLoading' = isLoading
    /\ outcome' = "failed"
    /\ IdleLocals
    /\ UNCHANGED <<sessionChangeCalls, refreshCalls>>
SubmitFailed(err) ==
    /\ messages' = SetLastContent(messages, ErrorContent(err))
    /\ trace' = Append(trace, TraceEvent("throw", err.message))
    /\ isBackendAvailable' = (IF isNetworkError(err) THEN FALSE ELSE isBackendAvailable)
    /\ isLoading' = FALSE
    /\ outcome' = "failed"
    /\ IdleLocals
    /\ UNCHANGED <<sessionChangeCalls, refreshCalls>>

\* fetch resolves with an OK response whose body is `body` (368-389)
FetchOk(body) ==
    /\ pc = "fetch"
    /\ pc' = "stream"
    /\ response' = body
    /\ readPos' = 0
    /\ buffer' = ""
    /\ currentEvent' = ""
    /\ sessionIdRef' = reqSessionId
    /\ UNCHANGED <<docVars, listVars, hookVars, engVars>>
    /\ UNCHANGED <<sessionId, messages, input, selectedImageData, selectedImageFormat,
                   isLoading, isLoadingHistory, isBackendAvailable, reqSessionId,
                   fullResponse, newSessionId, historyLoads, requests, trace, outcome,
                   sessionChangeCalls, refreshCalls, nsub, nswitch, rejects>>

\* fetch resolves with a response that is not OK (374-378)
FetchNotOk ==
    /\ pc = "fetch"
    /\ SubmitFailed(ApiError)
    /\ UNCHANGED <<docVars, listVars, hookVars, engVars>>
    /\ UNCHANGED <<sessionId, input, selectedImageData, selectedImageFormat,
                   isLoadingHistory, response, readPos, historyLoads, requests,
                   nsub, nswitch, rejects>>

\* fetch rejects (368)
FetchRejected ==
    /\ pc = "fetch"
    /\ SubmitFailed(FetchFailed)
    /\ UNCHANGED <<docVars, listVars, hookVars, engVars>>
    /\ UNCHANGED <<sessionId, input, selectedImageData, selectedImageFormat,
                   isLoadingHistory, response, readPos, historyLoads, requests,
                   nsub, nswitch, rejects>>

\* buffer = lines.pop() || '' (397): the text after the last newline is kept
\* for the next chunk
LinesPopDropped(lines) == ""
LinesPop(lines) == lines[Len(lines)]

\* reader.read() resolves with the next n pieces of the body (392-423); the
\* tokens of the chunk are yielded to handleSubmit one by one, and a return
\* inside the chunk ends the request in the same turn of the event loop
ReadChunk(n) ==
    /\ pc = "stream"
    /\ n \in 1..(Len(response) - readPos)
    /\ LET text == buffer \o Decode(response, readPos + 1, readPos + n)
           lines == SplitLines(text)
           g0 == [currentEvent |-> currentEvent, sessionIdRef |-> sessionIdRef,
                  returned |-> FALSE, fullResponse |-> fullResponse,
                  newSessionId |-> newSessionId, messages |-> messages,
                  trace |-> trace, calls |-> sessionChangeCalls]
           g == GenLines(g0, SubSeq(lines, 1, Len(lines) - 1))
       IN  /\ readPos' = readPos + n
           /\ IF g.returned
              THEN SubmitCompleted(g.messages, g.calls, g.trace)
              ELSE /\ buffer' = LinesPop(lines)
                   /\ currentEvent' = g.currentEvent
                   /\ sessionIdRef' = g.sessionIdRef
                   /\ fullResponse' = g.fullResponse
                   /\ newSessionId' = g.newSessionId
                   /\ messages' = g.messages
                   /\ trace' = g.trace
                   /\ sessionChangeCalls' = g.calls
                   /\ UNCHANGED <<isLoading, isBackendAvailable, pc, reqSessionId,
                                  outcome, refreshCalls>>
    /\ UNCHANGED <<docVars, listVars, hookVars, engVars>>
    /\ UNCHANGED <<sessionId, input, selectedImageData, selectedImageFormat,
                   isLoadingHistory, response, historyLoads, requests, nsub, nswitch, rejects>>

\* reader.read() resolves with done = true (393): the body ended at readPos
ReadDone ==
    /\ pc = "stream"
    /\ SubmitCompleted(messages, sessionChangeCalls, Append(trace, TraceEvent("end", "")))
    /\ UNCHANGED <<docVars, listVars, hookVars, engVars>>
    /\ UNCHANGED <<sessionId, input, selectedImageData, selectedImageFormat,
                   isLoadingHistory, response, readPos, historyLoads, requests,
                   nsub, nswitch, rejects>>

\* reader.read() rejects (392): the connection broke
ReadRejected ==
    /\ pc = "stream"
    /\ SubmitFailed(BodyStreamError)
    /\ UNCHANGED <<docVars, listVars, hookVars, engVars>>
    /\ UNCHANGED <<sessionId, input, selectedImageData, selectedImageFormat,
                   isLoadingHistory, response, readPos, historyLoads, requests,
                   nsub, nswitch, rejects>>

\* --------------------------------------------- ChatBox: the history effect

\* the parent renders ChatBox with another sessionId and the effect of 506-543
\* runs up to its await
SetSessionId(s) ==
    /\ s # sessionId
    /\ nswitch < MaxSwitches
    /\ nswitch' = nswitch + 1
    /\ sessionId' = s
    /\ IF s # NoSession
       THEN /\ PendingLoads < MaxLoads
            /\ isLoadingHistory' = TRUE
            /\ historyLoads' = [historyLoads EXCEPT ![s] = @ + 1]
            /\ UNCHANGED messages
       ELSE /\ messages' = <<>>
            /\ UNCHANGED <<isLoadingHistory, historyLoads>>
    /\ UNCHANGED <<docVars, listVars, hookVars, engVars>>
    /\ UNCHANGED <<input, selectedImageData, selectedImageFormat, isLoading,
                   isBackendAvailable, pc, reqSessionId, fullResponse, newSessionId,
                   buffer, currentEvent, sessionIdRef, response, readPos, requests,
                   trace, outcome, sessionChangeCalls, refreshCalls, nsub, rejects>>

\* getSession(s) resolves with the stored messages (511-522, 534-536)
HistoryLoaded(s, history) ==
    /\ historyLoads[s] > 0
    /\ historyLoads' = [historyLoads EXCEPT ![s] = @ - 1]
    /\ messages' = history
    /\ isBackendAvailable' = TRUE
    /\ isLoadingHistory' = FALSE
    /\ UNCHANGED <<docVars, listVars, hookVars, engVars>>
    /\ UNCHANGED <<sessionId, input, selectedImageData, selectedImageFormat, isLoading,
                   pc, reqSessionId, fullResponse, newSessionId, buffer, currentEvent,
                   sessionIdRef, response, readPos, requests, trace, outcome,
                   sessionChangeCalls, refreshCalls, nsub, nswitch, rejects>>

\* getSession(s) rejects with err (523-536)
HistoryFailed(s, err) ==
    /\ historyLoads[s] > 0
    /\ historyLoads' = [historyLoads EXCEPT ![s] = @ - 1]
    /\ messages' = <<>>
    /\ isBackendAvailable' = (IF isNetworkError(err) THEN FALSE ELSE isBackendAvailable)
    /\ isLoadingHistory' = FALSE
    /\ UNCHANGED <<docVars, listVars, hookVars, engVars>>
    /\ UNCHANGED <<sessionId, input, selectedImageData, selectedImageFormat, isLoading,
                   pc, reqSessionId, fullResponse, newSessionId, buffer, currentEvent,
                   sessionIdRef, response, readPos, requests, trace, outcome,
                   sessionChangeCalls, refreshCalls, nsub, nswitch, rejects>>

\* ------------------------------------------------- DocumentManager: inputs

\* what the user may type into the URL field
UrlInputs == {" ", "http://a", "https://a", " ftp://a ", "http:/a"}
FileNames == {"f.txt"}

\* what GET /documents/list may answer
ListResponses ==
    {[documents |-> <<>>, total_count |-> 0, total_chunks |-> 0],
     [documents |-> <<"d1">>, total_count |-> 1, total_chunks |-> 3]}

\* what POST /documents/upload may answer: a status, or a JSON body without one
\* (uploadDocument, App.tsx 427-436, returns the body of any response)
UploadResults ==
    {[status |-> "ready"], [status |-> "failed: empty file"],
     [status |-> "processing"], [status |-> Undefined]}

\* what POST /documents/ingest-url may answer: the documents of the result,
\* none when the body has no documents
IngestResults ==
    {[documents |-> <<>>],
     [documents |-> <<[status |-> "ready", chunk_count |-> 3]>>],
     [documents |-> <<[status |-> "ready", chunk_count |-> 0]>>],
     [documents |-> <<[status |-> "failed: unreachable", chunk_count |-> 0]>>],
     [documents |-> <<[status |-> "processing", chunk_count |-> 0]>>],
     [documents |-> <<[status |-> Undefined, chunk_count |-> 0]>>]}

\* what a rejected fetch or response.json() throws
IngestErrors == {FetchFailed}

\* the texts of 86, 107, 135, 148 and 157, in English
ListErrorText == "Failed to load the document list"
InvalidUrlText == "Enter a valid URL"
AddUrlFailedText == "Failed to add the URL"
UploadedText(name) == "Document \"" \o name \o "\" uploaded"
UrlAddedText(url, chunks) ==
    "URL \"" \o url \o "\" added, " \o ToString(chunks) \o " chunks"

\* the state after DocumentManager has mounted and its effect (93-95) has
\* called loadDocuments
InitDocs ==
    /\ documents = <<>>
    /\ totalCount = 0
    /\ totalChunks = 0
    /\ docsLoading = TRUE
    /\ isUploading = FALSE
    /\ isAddingUrl = FALSE
    /\ addDialogOpen = FALSE
    /\ docError = Null
    /\ successMsg = Null
    /\ urlInput = ""
    /\ uploadPc = "idle"
    /\ uploadFile = ""
    /\ urlPc = "idle"
    /\ urlSent = ""
    /\ refreshLoads = 1
    /\ ingestRequests = <<>>
    /\ ndocops = 0

\* --------------------------------------------- DocumentManager: loadDocuments

\* loadDocuments up to its await (78-81)
LoadDocumentsStart ==
    /\ docsLoading' = TRUE
    /\ docError' = Null

\* the effect of 71-75: setPage(1) runs after a render in which sortType or
\* documents.length has changed
PageKept(docs, sort) == page
PageAfter(docs, sort) ==
    IF sort # sortType \/ Len(docs) # Len(documents) THEN 1 ELSE page

\* getDocumentList resolved with resp (81-84, 88-90)
LoadDocumentsOk(resp) ==
    /\ documents' = resp.documents
    /\ page' = PageAfter(resp.documents, sortType)
    /\ totalCount' = resp.total_count
    /\ totalChunks' = resp.total_chunks
    /\ docsLoading' = FALSE
    /\ UNCHANGED docError

\* getDocumentList rejected (85-90)
LoadDocumentsErr ==
    /\ docError' = ListErrorText
    /\ docsLoading' = FALSE
    /\ UNCHANGED <<documents, totalCount, totalChunks>>

\* the refresh button (274), disabled while isLoading
Refresh ==
    /\ ~docsLoading
    /\ ndocops < MaxDocOps
    /\ ndocops' = ndocops + 1
    /\ refreshLoads' = refreshLoads + 1
    /\ LoadDocumentsStart
    /\ UNCHANGED <<chatVars, listVars, hookVars, engVars>>
    /\ UNCHANGED <<documents, totalCount, totalChunks, isUploading, isAddingUrl,
                   addDialogOpen, successMsg, urlInput, uploadPc, uploadFile, urlPc,
                   urlSent, ingestRequests>>

\* the list request of the mount effect or of a refresh resolves
RefreshLoaded(resp) ==
    /\ refreshLoads > 0
    /\ refreshLoads' = refreshLoads - 1
    /\ LoadDocumentsOk(resp)
    /\ UNCHANGED <<chatVars, hookVars, engVars, sortType, deleteVars>>
    /\ UNCHANGED <<isUploading, isAddingUrl, addDialogOpen, successMsg, urlInput,
                   uploadPc, uploadFile, urlPc, urlSent, ingestRequests, ndocops>>

RefreshFailed ==
    /\ refreshLoads > 0
    /\ refreshLoads' = refreshLoads - 1
    /\ LoadDocumentsErr
    /\ UNCHANGED <<chatVars, listVars, hookVars, engVars>>
    /\ UNCHANGED <<isUploading, isAddingUrl, addDialogOpen, successMsg, urlInput,
                   uploadPc, uploadFile, urlPc, urlSent, ingestRequests, ndocops>>

\* the "add document" button (244) and the dialog's onOpenChange (378)
SetAddDialogOpen(open) ==
    /\ open # addDialogOpen
    /\ addDialogOpen' = open
    /\ UNCHANGED <<chatVars, listVars, hookVars, engVars>>
    /\ UNCHANGED <<documents, totalCount, totalChunks, docsLoading, isUploading,
                   isAddingUrl, docError, successMsg, urlInput, uploadPc, uploadFile,
                   urlPc, urlSent, refreshLoads, ingestRequests, ndocops>>

\* ------------------------------------------ DocumentManager: handleFileSelect

\* the file input's onChange (428-431): handleFileUpload (120-128), then
\* handleFileSelect up to its await (97-105), then setAddDialogOpen(false).
\* The button that opens the file picker is disabled while isUploading (420).
handleFileSelect(name) ==
    /\ addDialogOpen
    /\ ~isUploading
    /\ ndocops < MaxDocOps
    /\ ndocops' = ndocops + 1
    /\ isUploading' = TRUE
    /\ docError' = Null
    /\ successMsg' = Null
    /\ uploadPc' = "upload"
    /\ uploadFile' = name
    /\ addDialogOpen' = FALSE
    /\ UNCHANGED <<chatVars, listVars, hookVars, engVars>>
    /\ UNCHANGED <<documents, totalCount, totalChunks, docsLoading, isAddingUrl,
                   urlInput, urlPc, urlSent, refreshLoads, ingestRequests>>

\* uploadDocument resolved with result (105-112, 115-117)
UploadResolved(result) ==
    /\ uploadPc = "upload"
    /\ IF result.status = "ready"
         THEN /\ successMsg' = UploadedText(uploadFile)
              /\ LoadDocumentsStart
              /\ uploadPc' = "reload"
              /\ UNCHANGED isUploading
         ELSE /\ docError' = result.status
              /\ isUploading' = FALSE
              /\ uploadPc' = "idle"
              /\ UNCHANGED <<successMsg, docsLoading>>
    /\ UNCHANGED <<chatVars, listVars, hookVars, engVars>>
    /\ UNCHANGED <<documents, totalCount, totalChunks, isAddingUrl, addDialogOpen,
                   urlInput, uploadFile, urlPc, urlSent, refreshLoads,
                   ingestRequests, ndocops>>

\* uploadDocument rejected with err (113-117)
UploadRejected(err) ==
    /\ uploadPc = "upload"
    /\ docError' = err.message
    /\ isUploading' = FALSE
    /\ uploadPc' = "idle"
    /\ UNCHANGED <<chatVars, listVars, hookVars, engVars>>
    /\ UNCHANGED <<documents, totalCount, totalChunks, docsLoading, isAddingUrl,
                   addDialogOpen, successMsg, urlInput, uploadFile, urlPc, urlSent,
                   refreshLoads, ingestRequests, ndocops>>

\* the loadDocuments awaited at 108 settles; onDocumentsChange is not passed
\* by App (App.tsx 254), so 109 does nothing; finally 115-117
UploadReloaded(resp) ==
    /\ uploadPc = "reload"
    /\ LoadDocumentsOk(resp)
    /\ isUploading' = FALSE
    /\ uploadPc' = "idle"
    /\ UNCHANGED <<chatVars, hookVars, engVars, sortType, deleteVars>>
    /\ UNCHANGED <<isAddingUrl, addDialogOpen, successMsg, urlInput, uploadFile,
                   urlPc, urlSent, refreshLoads, ingestRequests, ndocops>>

UploadReloadFailed ==
    /\ uploadPc = "reload"
    /\ LoadDocumentsErr
    /\ isUploading' = FALSE
    /\ uploadPc' = "idle"
    /\ UNCHANGED <<chatVars, listVars, hookVars, engVars>>
    /\ UNCHANGED <<isAddingUrl, addDialogOpen, successMsg, urlInput, uploadFile,
                   urlPc, urlSent, refreshLoads, ingestRequests, ndocops>>

\* ---------------------------------------------- DocumentManager: handleAddUrl

\* the URL field's onChange (439)
SetUrlInput(v) ==
    /\ addDialogOpen
    /\ v # urlInput
    /\ urlInput' = v
    /\ UNCHANGED <<chatVars, listVars, hookVars, engVars>>
    /\ UNCHANGED <<documents, totalCount, totalChunks, docsLoading, isUploading,
                   isAddingUrl, addDialogOpen, docError, successMsg, uploadPc,
                   uploadFile, urlPc, urlSent, refreshLoads, ingestRequests, ndocops>>

\* a test that looks at the scheme's first letters only
SupportedSchemeLoose(url) ==
    StartsWith(url, "http")

\* the test of 134, on the trimmed text
SupportedScheme(url) ==
    StartsWith(url, "http://") \/ StartsWith(url, "https://")

\* handleAddUrl up to its await (130-144); its button is disabled while
\* isAddingUrl or while the field is empty (446)
handleAddUrl ==
    /\ addDialogOpen
    /\ ~isAddingUrl
    /\ urlInput # ""
    /\ LET url == Trim(urlInput) IN
         IF url = ""
           THEN UNCHANGED docVars
           ELSE IF ~SupportedScheme(url)
             THEN /\ docError' = InvalidUrlText
                  /\ UNCHANGED <<documents, totalCount, totalChunks, docsLoading,
                                 isUploading, isAddingUrl, addDialogOpen, successMsg,
                                 urlInput, uploadPc, uploadFile, urlPc, urlSent,
                                 refreshLoads, ingestRequests, ndocops>>
             ELSE /\ ndocops < MaxDocOps
                  /\ ndocops' = ndocops + 1
                  /\ isAddingUrl' = TRUE
                  /\ docError' = Null
                  /\ successMsg' = Null
                  /\ urlPc' = "ingest"
                  /\ urlSent' = url
                  /\ ingestRequests' = Append(ingestRequests, <<url>>)
                  /\ UNCHANGED <<documents, totalCount, totalChunks, docsLoading,
                                 isUploading, addDialogOpen, urlInput, uploadPc,
                                 uploadFile, refreshLoads>>
    /\ UNCHANGED <<chatVars, listVars, hookVars, engVars>>

\* ingestUrls resolved with result (144-158, 161-163); hasFirst says whether
\* result.documents?.[0] is defined; chunk_count || 0 is chunk_count for a number
IngestResolved(result) ==
    /\ urlPc = "ingest"
    /\ LET hasFirst == Len(result.documents) > 0
           firstDoc == result.documents[1]
       IN  IF hasFirst /\ firstDoc.status = "ready"
             THEN /\ successMsg' = UrlAddedText(urlSent, firstDoc.chunk_count)
                  /\ urlInput' = ""
                  /\ LoadDocumentsStart
                  /\ urlPc' = "reload"
                  /\ UNCHANGED isAddingUrl
             ELSE /\ docError' =
                       IF /\ hasFirst
                          /\ firstDoc.status # Undefined
                          /\ StartsWith(firstDoc.status, "failed")
                         THEN firstDoc.status
                         ELSE AddUrlFailedText
                  /\ isAddingUrl' = FALSE
                  /\ urlPc' = "idle"
                  /\ UNCHANGED <<successMsg, urlInput, docsLoading>>
    /\ UNCHANGED <<chatVars, listVars, hookVars, engVars>>
    /\ UNCHANGED <<documents, totalCount, totalChunks, isUploading, addDialogOpen,
                   uploadPc, uploadFile, urlSent, refreshLoads, ingestRequests,
                   ndocops>>

\* ingestUrls rejected with err (159-163)
IngestRejected(err) ==
    /\ urlPc = "ingest"
    /\ docError' = err.message
    /\ isAddingUrl' = FALSE
    /\ urlPc' = "idle"
    /\ UNCHANGED <<chatVars, listVars, hookVars, engVars>>
    /\ UNCHANGED <<documents, totalCount, totalChunks, docsLoading, isUploading,
                   addDialogOpen, successMsg, urlInput, uploadPc, uploadFile,
                   urlSent, refreshLoads, ingestRequests, ndocops>>

\* the loadDocuments awaited at 150 settles; then 151-153 and 161-163
UrlReloaded(resp) ==
    /\ urlPc = "reload"
    /\ LoadDocumentsOk(resp)
    /\ addDialogOpen' = FALSE
    /\ isAddingUrl' = FALSE
    /\ urlPc' = "idle"
    /\ UNCHANGED <<chatVars, hookVars, engVars, sortType, deleteVars>>
    /\ UNCHANGED <<isUploading, successMsg, urlInput, uploadPc, uploadFile,
                   urlSent, refreshLoads, ingestRequests, ndocops>>

UrlReloadFailed ==
    /\ urlPc = "reload"
    /\ LoadDocumentsErr
    /\ addDialogOpen' = FALSE
    /\ isAddingUrl' = FALSE
    /\ urlPc' = "idle"
    /\ UNCHANGED <<chatVars, listVars, hookVars, engVars>>
    /\ UNCHANGED <<isUploading, successMsg, urlInput, uploadPc, uploadFile,
                   urlSent, refreshLoads, ingestRequests, ndocops>>

\* ------------------------------------------- DocumentManager: the list

\* pageSize (57)
pageSize == 9

\* the document created i-th
DocId(i) == "d" \o ToString(i)

DocIndexes ==
    [d \in {DocId(i) : i \in 1..MaxListDocs} |->
        CHOOSE i \in 1..MaxListDocs : DocId(i) = d]

DocIndex(d) == DocIndexes[d]

\* created_at and source of a document, as the keys the sort compares
CreatedAt(d) == DocIndex(d)
SourceRank(d) == (DocIndex(d) * 3) % (MaxListDocs + 1)

\* the comparator of sortedDocuments (59-65)
CompareDocs(a, b, sort) ==
    IF sort = "name" THEN SourceRank(a) - SourceRank(b)
    ELSE IF sort = "newest" THEN CreatedAt(b) - CreatedAt(a)
    ELSE CreatedAt(a) - CreatedAt(b)

\* Array.prototype.sort is stable: x goes behind every element not after it
InsertDoc(x, sorted, sort) ==
    LET n == Cardinality({i \in 1..Len(sorted) : CompareDocs(sorted[i], x, sort) <= 0})
    IN  SubSeq(sorted, 1, n) \o <<x>> \o SubSeq(sorted, n + 1, Len(sorted))

RECURSIVE SortDocs(_, _)
SortDocs(docs, sort) ==
    IF docs = <<>> THEN <<>>
    ELSE InsertDoc(docs[Len(docs)], SortDocs(SubSeq(docs, 1, Len(docs) - 1), sort), sort)

\* sortedDocuments (58-66)
SortedDocuments == SortDocs(documents, sortType)

\* Math.ceil(n / pageSize) (68)
TotalPagesOf(n) == (n + pageSize - 1) \div pageSize

totalPages == TotalPagesOf(Len(SortedDocuments))

\* Array.prototype.slice(from, to) with 0 <= from <= to
SliceTo(seq, from, to) ==
    SubSeq(seq, from + 1, IF to < Len(seq) THEN to ELSE Len(seq))

\* paginatedDocuments (69)
paginatedDocuments == SliceTo(SortedDocuments, (page - 1) * pageSize, page * pageSize)

\* what GET /documents/list may answer with n documents
ListResponse(n) ==
    [documents |-> [i \in 1..n |-> DocId(i)], total_count |-> n, total_chunks |-> 3 * n]

\* lists of no, one and two pages
PagedResponses ==
    {ListResponse(n) : n \in {0, 1, pageSize, MaxListDocs}}

SortTypes == {"newest", "oldest", "name"}

DocDeleteErrors ==
    {FetchFailed, [type |-> "Error", message |-> "Failed to delete document: Not Found"]}

DeletedText == "Document deleted"

InitList ==
    /\ page = 1
    /\ sortType = "newest"
    /\ isDeleting = Null
    /\ deleteConfirmOpen = FALSE
    /\ docToDelete = Null
    /\ docDelPc = "idle"
    /\ clickedDoc = Null
    /\ deleteRequests = <<>>

\* a sort button (249-272); the effect of 71-75 follows
setSortType(sort) ==
    /\ sort # sortType
    /\ sortType' = sort
    /\ page' = PageAfter(documents, sort)
    /\ UNCHANGED <<deleteVars>>
    /\ UNCHANGED <<chatVars, docVars, hookVars, engVars>>

\* whether the list and its pagination buttons are rendered (281-291, 329)
ListShown == ~docsLoading /\ Len(documents) > 0

\* the "previous" button (331-339)
PreviousPage ==
    /\ ListShown /\ totalPages > 1
    /\ page # 1
    /\ page' = (IF page - 1 > 1 THEN page - 1 ELSE 1)
    /\ UNCHANGED <<sortType, deleteVars>>
    /\ UNCHANGED <<chatVars, docVars, hookVars, engVars>>

\* the "next" button (343-351)
NextPage ==
    /\ ListShown /\ totalPages > 1
    /\ page # totalPages
    /\ page' = (IF page + 1 < totalPages THEN page + 1 ELSE totalPages)
    /\ UNCHANGED <<sortType, deleteVars>>
    /\ UNCHANGED <<chatVars, docVars, hookVars, engVars>>

\* confirmDelete (166-169), from the delete button of a listed document
\* (314-322); the open dialog covers the list
confirmDelete(d) ==
    /\ ListShown /\ ~deleteConfirmOpen
    /\ isDeleting # d
    /\ ndocops < MaxDocOps
    /\ ndocops' = ndocops + 1
    /\ docToDelete' = d
    /\ deleteConfirmOpen' = TRUE
    /\ clickedDoc' = d
    /\ UNCHANGED <<page, sortType, isDeleting, docDelPc, deleteRequests>>
    /\ UNCHANGED <<documents, totalCount, totalChunks, docsLoading, isUploading,
                   isAddingUrl, addDialogOpen, docError, successMsg, urlInput, uploadPc,
                   uploadFile, urlPc, urlSent, refreshLoads, ingestRequests>>
    /\ UNCHANGED <<chatVars, hookVars, engVars>>

\* the dialog's onOpenChange(false) (358): Escape or a click outside; the
\* cancel button (367) does the same while nothing is being deleted
CloseDeleteDialog ==
    /\ deleteConfirmOpen
    /\ deleteConfirmOpen' = FALSE
    /\ UNCHANGED <<page, sortType, isDeleting, docToDelete, docDelPc, clickedDoc,
                   deleteRequests>>
    /\ UNCHANGED <<chatVars, docVars, hookVars, engVars>>

\* handleDelete (171-177) up to its await, from the confirm button (370)
handleDelete ==
    /\ deleteConfirmOpen
    /\ isDeleting = Null
    /\ IF docToDelete = Null
       THEN UNCHANGED <<docVars, listVars>>
       ELSE /\ isDeleting' = docToDelete
            /\ docError' = Null
            /\ docDelPc' = "delete"
            /\ deleteRequests' = Append(deleteRequests, docToDelete)
            /\ UNCHANGED <<page, sortType, deleteConfirmOpen, docToDelete, clickedDoc>>
            /\ UNCHANGED <<documents, totalCount, totalChunks, docsLoading, isUploading,
                           isAddingUrl, addDialogOpen, successMsg, urlInput, uploadPc,
                           uploadFile, urlPc, urlSent, refreshLoads, ingestRequests,
                           ndocops>>
    /\ UNCHANGED <<chatVars, hookVars, engVars>>

\* deleteDocument resolved (177-180): the dialog closes and loadDocuments is
\* awaited
DocDeleteResolved ==
    /\ docDelPc = "delete"
    /\ docDelPc' = "reload"
    /\ successMsg' = DeletedText
    /\ deleteConfirmOpen' = FALSE
    /\ LoadDocumentsStart
    /\ UNCHANGED <<page, sortType, isDeleting, docToDelete, clickedDoc, deleteRequests>>
    /\ UNCHANGED <<documents, totalCount, totalChunks, isUploading, isAddingUrl,
                   addDialogOpen, urlInput, uploadPc, uploadFile, urlPc, urlSent,
                   refreshLoads, ingestRequests, ndocops>>
    /\ UNCHANGED <<chatVars, hookVars, engVars>>

\* the finally of handleDelete (184-187)
DeleteSettled ==
    /\ isDeleting' = Null
    /\ docToDelete' = Null
    /\ docDelPc' = "idle"

\* deleteDocument rejected (182-187)
DocDeleteRejected(err) ==
    /\ docDelPc = "delete"
    /\ docError' = err.message
    /\ DeleteSettled
    /\ UNCHANGED <<page, sortType, deleteConfirmOpen, clickedDoc, deleteRequests>>
    /\ UNCHANGED <<documents, totalCount, totalChunks, docsLoading, isUploading,
                   isAddingUrl, addDialogOpen, successMsg, urlInput, uploadPc,
                   uploadFile, urlPc, urlSent, refreshLoads, ingestRequests, ndocops>>
    /\ UNCHANGED <<chatVars, hookVars, engVars>>

\* the loadDocuments handleDelete awaits (180) resolved
DocDeleteReloaded(resp) ==
    /\ docDelPc = "reload"
    /\ LoadDocumentsOk(resp)
    /\ DeleteSettled
    /\ UNCHANGED <<sortType, deleteConfirmOpen, clickedDoc, deleteRequests>>
    /\ UNCHANGED <<isUploading, isAddingUrl, addDialogOpen, successMsg, urlInput,
                   uploadPc, uploadFile, urlPc, urlSent, refreshLoads, ingestRequests,
                   ndocops>>
    /\ UNCHANGED <<chatVars, hookVars, engVars>>

\* the loadDocuments handleDelete awaits (180) failed: loadDocuments catches
\* its own error
DocDeleteReloadFailed ==
    /\ docDelPc = "reload"
    /\ LoadDocumentsErr
    /\ DeleteSettled
    /\ UNCHANGED <<page, sortType, deleteConfirmOpen, clickedDoc, deleteRequests>>
    /\ UNCHANGED <<isUploading, isAddingUrl, addDialogOpen, successMsg, urlInput,
                   uploadPc, uploadFile, urlPc, urlSent, refreshLoads, ingestRequests,
                   ndocops>>
    /\ UNCHANGED <<chatVars, hookVars, engVars>>

\* ------------------------------------------- the engine: one request
\* The Query Rewriter, the Context Assembler and the Generation Dispatcher, as
\* the design of the engine gives them.

MaxTokens == 2
MaxPassages == 3

UserMessages == {"what about next month?", "hi"}

\* how the model-assisted rewrite call may end
RewriteOutcomes ==
    {[kind |-> "ok", text |-> "plans for next month"],
     [kind |-> "ok", text |-> ""],
     [kind |-> "failed", text |-> ""],
     [kind |-> "timeout", text |-> ""]}

RewriteSucceeded(res) == res.kind = "ok" /\ res.text # ""

\* a rewrite that takes whatever the call returned
RewriteTakesResult(message, res) == res.text

\* rewrite(current_message, recent_history): the rewritten query, or the
\* original message unchanged when the call fails or returns empty
Rewrite(message, res) ==
    IF RewriteSucceeded(res) THEN res.text ELSE message

\* ranked passages, each with its source identifier and its size
Passages ==
    {[id |-> "p1", size |-> 1], [id |-> "p2", size |-> 2], [id |-> "p3", size |-> 3]}

RECURSIVE PassageLists(_)
PassageLists(n) ==
    IF n = 0 THEN {<<>>}
    ELSE LET shorter == PassageLists(n - 1)
         IN  shorter \cup {Append(ps, x) : ps \in {q \in shorter : Len(q) = n - 1},
                                           x \in Passages}

\* the configured budget, and the size of the parts of the prompt that are
\* not passages (system instruction, condensed history, standalone query)
Budget == 4
PromptOverhead == 1

RECURSIVE PassagesSize(_)
PassagesSize(ps) ==
    IF Len(ps) = 0 THEN 0 ELSE Head(ps).size + PassagesSize(Tail(ps))

PromptSize(ps) == PromptOverhead + PassagesSize(ps)

\* deduplicated passages: the first (highest-ranked) occurrence of each stays
RECURSIVE Deduplicate(_, _)
Deduplicate(ps, seen) ==
    IF Len(ps) = 0 THEN <<>>
    ELSE IF Head(ps).id \in seen THEN Deduplicate(Tail(ps), seen)
    ELSE <<Head(ps)>> \o Deduplicate(Tail(ps), seen \cup {Head(ps).id})

\* an assembler that skips a passage that does not fit and goes on with the
\* lower-ranked ones
RECURSIVE FitGreedy(_, _)
FitGreedy(ps, room) ==
    IF Len(ps) = 0 THEN <<>>
    ELSE IF Head(ps).size <= room
    THEN <<Head(ps)>> \o FitGreedy(Tail(ps), room - Head(ps).size)
    ELSE FitGreedy(Tail(ps), room)

DropLowestGreedy(ps) == FitGreedy(ps, Budget - PromptOverhead)

\* while the prompt is over the budget, drop the lowest-ranked passage
RECURSIVE DropLowest(_)
DropLowest(ps) ==
    IF PromptSize(ps) <= Budget \/ Len(ps) = 0 THEN ps
    ELSE DropLowest(SubSeq(ps, 1, Len(ps) - 1))

\* assemble(...): the passages of the prompt, in the order they were included
Assemble(ps) == DropLowest(Deduplicate(ps, {}))

\* what the request leaves alone in the Knowledge Index
IndexUnchanged ==
    UNCHANGED <<kiDocs, kiCount, kiChunks, searchSnapshot, searchResult, preStats,
                lastIndexed, nengops>>

\* an incoming message: the request is Pending and the pipeline starts
SubmitRequest(m) ==
    /\ genState = "None"
    /\ genState' = "Pending"
    /\ stage' = "rewrite"
    /\ userMessage' = m
    /\ UNCHANGED <<rewriteFailed, standalone, passages, included, events>>
    /\ IndexUnchanged
    /\ UNCHANGED <<chatVars, docVars, listVars, hookVars>>

\* the Query Rewriter's call has ended
RewriteDone(res) ==
    /\ stage = "rewrite"
    /\ standalone' = Rewrite(userMessage, res)
    /\ rewriteFailed' = ~RewriteSucceeded(res)
    /\ stage' = "assemble"
    /\ UNCHANGED <<genState, userMessage, passages, included, events>>
    /\ IndexUnchanged
    /\ UNCHANGED <<chatVars, docVars, listVars, hookVars>>

\* the Context Assembler builds the prompt from the ranked passages ps
AssembleDone(ps) ==
    /\ stage = "assemble"
    /\ passages' = ps
    /\ included' = Assemble(ps)
    /\ stage' = "generate"
    /\ UNCHANGED <<genState, userMessage, rewriteFailed, standalone, events>>
    /\ IndexUnchanged
    /\ UNCHANGED <<chatVars, docVars, listVars, hookVars>>

\* ---------------------------------- the engine: the Generation Dispatcher

TokenCount(evs) == Cardinality({i \in DOMAIN evs : evs[i] = "token"})

\* a dispatcher that accepts a cancellation whatever the state of the request
CanCancelAnyState(state) == state # "None"

\* cancellation stops the in-flight generation
CanCancel(state) == state = "Streaming"

\* generation starts for the assembled prompt
StartStreaming ==
    /\ stage = "generate"
    /\ genState = "Pending"
    /\ genState' = "Streaming"
    /\ UNCHANGED <<stage, userMessage, rewriteFailed, standalone, passages, included,
                   events>>
    /\ IndexUnchanged
    /\ UNCHANGED <<chatVars, docVars, listVars, hookVars>>

\* a fragment is delivered to the caller as produced
EmitToken ==
    /\ genState = "Streaming"
    /\ TokenCount(events) < MaxTokens
    /\ events' = Append(events, "token")
    /\ UNCHANGED <<genState, stage, userMessage, rewriteFailed, standalone, passages,
                   included>>
    /\ IndexUnchanged
    /\ UNCHANGED <<chatVars, docVars, listVars, hookVars>>

\* the stream completes: the one terminal success event
CompleteStream ==
    /\ genState = "Streaming"
    /\ genState' = "Completed"
    /\ stage' = "end"
    /\ events' = Append(events, "done")
    /\ UNCHANGED <<userMessage, rewriteFailed, standalone, passages, included>>
    /\ IndexUnchanged
    /\ UNCHANGED <<chatVars, docVars, listVars, hookVars>>

\* the generation engine fails: an error fragment is emitted once
EngineFailure ==
    /\ genState = "Streaming"
    /\ genState' = "Failed"
    /\ stage' = "end"
    /\ events' = Append(events, "error")
    /\ UNCHANGED <<userMessage, rewriteFailed, standalone, passages, included>>
    /\ IndexUnchanged
    /\ UNCHANGED <<chatVars, docVars, listVars, hookVars>>

\* the caller disconnects or cancels: no further fragment is emitted
CancelRequest ==
    /\ CanCancel(genState)
    /\ genState' = "Cancelled"
    /\ stage' = "end"
    /\ UNCHANGED <<userMessage, rewriteFailed, standalone, passages, included, events>>
    /\ IndexUnchanged
    /\ UNCHANGED <<chatVars, docVars, listVars, hookVars>>

\* -------------------------------------- the engine: the Knowledge Index

MaxChunks == 2
MaxIndexOps == 3
SearchK == 2

DocIds == {"d1", "d2"}
DocOrder == <<"d1", "d2">>
NoDoc == "<nodoc>"
RoundTripDone == "<removed right after index>"

ChunksOf(chunks, d) == {c \in chunks : c[1] = d}

\* stats()
Stats(docs, chunks) ==
    [total_documents |-> Cardinality({d \in DocIds : docs[d] # "absent"}),
     total_chunks |-> Cardinality(chunks)]

\* a removal that deletes the first chunk of the document only
RemoveOneChunk(chunks, d) == chunks \ {<<d, 1>>}

\* deleting a Document cascades to all its chunks
RemoveChunks(chunks, d) == chunks \ ChunksOf(chunks, d)

\* a removal that leaves the record of a document without chunks
KeepEmptyDocument(docs, d) ==
    IF docs[d] = "failed" THEN docs ELSE [docs EXCEPT ![d] = "absent"]

DropDocument(docs, d) == [docs EXCEPT ![d] = "absent"]

\* the chunks in rank order for a query that scores them alike: by document,
\* then by insertion order
RECURSIVE RankFrom(_, _, _)
RankFrom(chunks, i, n) ==
    IF i > Len(DocOrder) THEN <<>>
    ELSE IF n > MaxChunks THEN RankFrom(chunks, i + 1, 1)
    ELSE (IF <<DocOrder[i], n>> \in chunks THEN <<(<<DocOrder[i], n>>)>> ELSE <<>>)
             \o RankFrom(chunks, i, n + 1)

TopK(ranked, k) == SubSeq(ranked, 1, IF Len(ranked) < k THEN Len(ranked) ELSE k)

RequestUnchanged ==
    UNCHANGED <<genState, stage, userMessage, rewriteFailed, standalone, passages,
                included, events>>

\* index(document_id, chunks) with n chunks: the Document becomes ready, or
\* failed with no chunk when the source yields none
IndexDocument(d, n) ==
    /\ kiDocs[d] = "absent"
    /\ nengops < MaxIndexOps
    /\ nengops' = nengops + 1
    /\ preStats' = Stats(kiDocs, kiChunks)
    /\ lastIndexed' = d
    /\ kiDocs' = [kiDocs EXCEPT ![d] = IF n = 0 THEN "failed" ELSE "ready"]
    /\ kiCount' = [kiCount EXCEPT ![d] = n]
    /\ kiChunks' = kiChunks \cup {<<d, i>> : i \in 1..n}
    /\ UNCHANGED <<searchSnapshot, searchResult>>
    /\ RequestUnchanged
    /\ UNCHANGED <<chatVars, docVars, listVars, hookVars>>

\* remove(document_id)
RemoveDocument(d) ==
    /\ kiDocs[d] # "absent"
    /\ nengops < MaxIndexOps
    /\ nengops' = nengops + 1
    /\ lastIndexed' = IF lastIndexed = d THEN RoundTripDone ELSE NoDoc
    /\ kiDocs' = DropDocument(kiDocs, d)
    /\ kiCount' = [kiCount EXCEPT ![d] = 0]
    /\ kiChunks' = RemoveChunks(kiChunks, d)
    /\ UNCHANGED <<searchSnapshot, searchResult, preStats>>
    /\ RequestUnchanged
    /\ UNCHANGED <<chatVars, docVars, listVars, hookVars>>

\* search(query_text, k): reads a snapshot of the index and ranks it
SearchIndex ==
    /\ searchSnapshot' = kiChunks
    /\ searchResult' = TopK(RankFrom(kiChunks, 1, 1), SearchK)
    /\ UNCHANGED <<kiDocs, kiCount, kiChunks, preStats, lastIndexed, nengops>>
    /\ RequestUnchanged
    /\ UNCHANGED <<chatVars, docVars, listVars, hookVars>>

InitEngine ==
    /\ genState = "None"
    /\ stage = "idle"
    /\ userMessage = ""
    /\ rewriteFailed = FALSE
    /\ standalone = ""
    /\ passages = <<>>
    /\ included = <<>>
    /\ events = <<>>
    /\ kiDocs = [d \in DocIds |-> "absent"]
    /\ kiCount = [d \in DocIds |-> 0]
    /\ kiChunks = {}
    /\ searchSnapshot = {}
    /\ searchResult = <<>>
    /\ preStats = Stats([d \in DocIds |-> "absent"], {})
    /\ lastIndexed = NoDoc
    /\ nengops = 0

\* ------------------------------------------------------ useSessions: state

\* the endpoints of the session functions (App.tsx 313-318)
SessionsUrl == "/api/chat/sessions"
HistoryUrl(id) == "/api/chat/history/" \o id
StreamUrl == "/api/chat/stream"
ChatUrl == "/api/chat/"

UpdateTitleUrl(id) == "/api/chat/sessions/" \o id \o "/title"

\* the id the backend gives the session POST /chat/sessions creates
CreatedSessionId == "s3"
HookSessionIds == SessionIds \cup {CreatedSessionId}

NoDetailLoads == [s \in HookSessionIds |-> 0]

\* the state after App has mounted: the init effect (1083-1093) has read the
\* stored id, the effect on currentSessionId (1096-1102) has started the load
\* of its detail, and App's effect on activeTab (App.tsx 77-81) has called
\* loadSessions
InitHookMounted(stored, srv) ==
    /\ sessions = {}
    /\ currentSessionId = stored
    /\ currentSession = Null
    /\ sessionsLoading = TRUE
    /\ sessionsError = Null
    /\ sessionsBackendAvailable = TRUE
    /\ storedSessionId = stored
    /\ srvSessions = srv
    /\ listLoads = 1
    /\ detailLoads = [s \in HookSessionIds |-> IF s = stored THEN 1 ELSE 0]
    /\ delPc = "idle"
    /\ delId = Null
    /\ delClosure = Null
    /\ createPc = "idle"
    /\ clearPc = "idle"
    /\ renPc = "idle"
    /\ mountTimer = TRUE
    /\ apiCalls = {<<"GET", SessionsUrl>>}
                      \cup (IF stored = Null THEN {} ELSE {<<"GET", HistoryUrl(stored)>>})

InitHookWith(stored, srv) == InitHookMounted(stored, srv) /\ nhookops = 0

InitHook == InitHookWith(Null, SessionIds)

\* ---------------------------------------------------- useSessions: actions

\* the `throw new Error(...)` of the session APIs on a response that is not ok
\* (App.tsx 483, 491, 502, 514, 524, 534)
SessionApiError(what) ==
    [type |-> "Error", message |-> "Failed to " \o what \o ": Internal Server Error"]

NotConnectedText == "Backend not connected"
CannotCreateText == "Backend not connected, cannot create a session"

\* what a catch block of the hook leaves in `error` and `isBackendAvailable`;
\* loadSessions and loadCurrentSession set no error on a network error
CaughtError(err, networkText) ==
    IF isNetworkError(err) THEN networkText ELSE err.message

CaughtAvailable(err) ==
    IF isNetworkError(err) THEN FALSE ELSE sessionsBackendAvailable

\* the state a handler leaves, with the render that follows it: the effect on
\* currentSessionId (1096-1102) runs when currentSessionId or
\* isBackendAvailable has changed; it calls loadCurrentSession or clears
\* currentSession
Render(cid, available, detail, loading, loads, calls) ==
    LET runs == cid # currentSessionId \/ available # sessionsBackendAvailable
        starts == runs /\ cid # Null /\ available
    IN  /\ currentSessionId' = cid
        /\ sessionsBackendAvailable' = available
        /\ currentSession' = (IF runs /\ cid = Null THEN Null ELSE detail)
        /\ sessionsLoading' = (loading \/ starts)
        /\ detailLoads' = (IF starts THEN [loads EXCEPT ![cid] = @ + 1] ELSE loads)
        /\ apiCalls' = apiCalls \cup calls
               \cup (IF starts THEN {<<"GET", HistoryUrl(cid)>>} ELSE {})

\* the timer of the init effect (1089-1091) fires: loadSessions starts
MountTimerFires ==
    /\ mountTimer
    /\ mountTimer' = FALSE
    /\ listLoads' = listLoads + 1
    /\ Render(currentSessionId, sessionsBackendAvailable, currentSession, TRUE,
              detailLoads, {<<"GET", SessionsUrl>>})
    /\ UNCHANGED <<sessions, sessionsError, storedSessionId, srvSessions, delPc, delId,
                   delClosure, createPc, clearPc, renPc, nhookops>>
    /\ UNCHANGED <<chatVars, docVars, listVars, engVars>>

\* loadSessions (930-952): getSessions resolved
ListLoaded ==
    /\ listLoads > 0
    /\ listLoads' = listLoads - 1
    /\ sessions' = srvSessions
    /\ sessionsError' = Null
    /\ Render(currentSessionId, TRUE, currentSession, FALSE, detailLoads, {})
    /\ UNCHANGED <<storedSessionId, srvSessions, delPc, delId, delClosure, createPc,
                   clearPc, renPc, mountTimer, nhookops>>
    /\ UNCHANGED <<chatVars, docVars, listVars, engVars>>

\* loadSessions (930-952): getSessions rejected
ListFailed(err) ==
    /\ listLoads > 0
    /\ listLoads' = listLoads - 1
    /\ sessionsError' = CaughtError(err, sessionsError)
    /\ Render(currentSessionId, CaughtAvailable(err), currentSession, FALSE,
              detailLoads, {})
    /\ UNCHANGED <<sessions, storedSessionId, srvSessions, delPc, delId, delClosure,
                   createPc, clearPc, renPc, mountTimer, nhookops>>
    /\ UNCHANGED <<chatVars, docVars, listVars, engVars>>

\* loadCurrentSession (955-976): getSession(s) resolved
DetailLoaded(s) ==
    /\ detailLoads[s] > 0
    /\ s \in srvSessions
    /\ sessionsError' = Null
    /\ Render(currentSessionId, TRUE, s, FALSE, [detailLoads EXCEPT ![s] = @ - 1], {})
    /\ UNCHANGED <<sessions, storedSessionId, srvSessions, listLoads, delPc, delId,
                   delClosure, createPc, clearPc, renPc, mountTimer, nhookops>>
    /\ UNCHANGED <<chatVars, docVars, listVars, engVars>>

\* loadCurrentSession (955-976): getSession(s) rejected
DetailFailed(s, err) ==
    /\ detailLoads[s] > 0
    /\ sessionsError' = CaughtError(err, sessionsError)
    /\ Render(currentSessionId, CaughtAvailable(err),
              IF isNetworkError(err) THEN Null ELSE currentSession, FALSE,
              [detailLoads EXCEPT ![s] = @ - 1], {})
    /\ UNCHANGED <<sessions, storedSessionId, srvSessions, listLoads, delPc, delId,
                   delClosure, createPc, clearPc, renPc, mountTimer, nhookops>>
    /\ UNCHANGED <<chatVars, docVars, listVars, engVars>>

\* localStorage.setItem(CURRENT_SESSION_KEY, value) (985, 1006): the key's
\* value afterwards
setItemIgnored(stored, value) == stored
setItem(stored, value) == value

\* switchSession (1003-1009) up to its await: it calls loadCurrentSession
\* itself, and the effect calls it again when the id has changed
switchSession(s) ==
    /\ nhookops < MaxHookOps
    /\ nhookops' = nhookops + 1
    /\ storedSessionId' = setItem(storedSessionId, s)
    /\ Render(s, sessionsBackendAvailable, currentSession, TRUE,
              [detailLoads EXCEPT ![s] = @ + 1], {<<"GET", HistoryUrl(s)>>})
    /\ UNCHANGED <<sessions, sessionsError, srvSessions, listLoads, delPc, delId,
                   delClosure, createPc, clearPc, renPc, mountTimer>>
    /\ UNCHANGED <<chatVars, docVars, listVars, engVars>>

\* createNewSession (979-1001) up to its first await
createNewSession ==
    /\ nhookops < MaxHookOps
    /\ createPc = "idle"
    /\ nhookops' = nhookops + 1
    /\ createPc' = "create"
    /\ Render(currentSessionId, sessionsBackendAvailable, currentSession, TRUE,
              detailLoads, {<<"POST", SessionsUrl>>})
    /\ UNCHANGED <<sessions, sessionsError, storedSessionId, srvSessions, listLoads,
                   delPc, delId, delClosure, clearPc, renPc, mountTimer>>
    /\ UNCHANGED <<chatVars, docVars, listVars, engVars>>

\* createSession resolved (982-987): the new id is selected and stored, and
\* loadSessions is awaited
CreateResolved ==
    /\ createPc = "create"
    /\ createPc' = "list"
    /\ srvSessions' = srvSessions \cup {CreatedSessionId}
    /\ storedSessionId' = setItem(storedSessionId, CreatedSessionId)
    /\ sessionsError' = Null
    /\ Render(CreatedSessionId, TRUE, currentSession, TRUE, detailLoads,
              {<<"GET", SessionsUrl>>})
    /\ UNCHANGED <<sessions, listLoads, delPc, delId, delClosure, clearPc, renPc,
                   mountTimer, nhookops>>
    /\ UNCHANGED <<chatVars, docVars, listVars, engVars>>

\* createSession rejected (990-996)
CreateRejected(err) ==
    /\ createPc = "create"
    /\ createPc' = "idle"
    /\ sessionsError' = CaughtError(err, CannotCreateText)
    /\ Render(currentSessionId, CaughtAvailable(err), currentSession, FALSE,
              detailLoads, {})
    /\ UNCHANGED <<sessions, storedSessionId, srvSessions, listLoads, delPc, delId,
                   delClosure, clearPc, renPc, mountTimer, nhookops>>
    /\ UNCHANGED <<chatVars, docVars, listVars, engVars>>

\* the loadSessions createNewSession awaits (987) resolved; its finally (998)
CreateListLoaded ==
    /\ createPc = "list"
    /\ createPc' = "done"
    /\ sessions' = srvSessions
    /\ sessionsError' = Null
    /\ Render(currentSessionId, TRUE, currentSession, FALSE, detailLoads, {})
    /\ UNCHANGED <<storedSessionId, srvSessions, listLoads, delPc, delId, delClosure,
                   clearPc, renPc, mountTimer, nhookops>>
    /\ UNCHANGED <<chatVars, docVars, listVars, engVars>>

\* the loadSessions createNewSession awaits (987) failed: loadSessions
\* catches its own error
CreateListFailed(err) ==
    /\ createPc = "list"
    /\ createPc' = "done"
    /\ sessionsError' = CaughtError(err, sessionsError)
    /\ Render(currentSessionId, CaughtAvailable(err), currentSession, FALSE,
              detailLoads, {})
    /\ UNCHANGED <<sessions, storedSessionId, srvSessions, listLoads, delPc, delId,
                   delClosure, clearPc, renPc, mountTimer, nhookops>>
    /\ UNCHANGED <<chatVars, docVars, listVars, engVars>>

\* removeSession (1034-1057) up to its first await; the callback holds the
\* currentSessionId of the render it was made in (1057)
removeSession(s) ==
    /\ nhookops < MaxHookOps
    /\ delPc = "idle"
    /\ nhookops' = nhookops + 1
    /\ delPc' = "delete"
    /\ delId' = s
    /\ delClosure' = currentSessionId
    /\ Render(currentSessionId, sessionsBackendAvailable, currentSession, TRUE,
              detailLoads, {<<"DELETE", HistoryUrl(s)>>})
    /\ UNCHANGED <<sessions, sessionsError, storedSessionId, srvSessions, listLoads,
                   createPc, clearPc, renPc, mountTimer>>
    /\ UNCHANGED <<chatVars, docVars, listVars, engVars>>

\* deleteSession resolved (1037-1040): loadSessions is awaited
DeleteResolved ==
    /\ delPc = "delete"
    /\ delPc' = "list"
    /\ srvSessions' = srvSessions \ {delId}
    /\ sessionsError' = Null
    /\ Render(currentSessionId, TRUE, currentSession, TRUE, detailLoads,
              {<<"GET", SessionsUrl>>})
    /\ UNCHANGED <<sessions, storedSessionId, listLoads, delId, delClosure, createPc,
                   clearPc, renPc, mountTimer, nhookops>>
    /\ UNCHANGED <<chatVars, docVars, listVars, engVars>>

\* deleteSession rejected (1046-1052)
DeleteRejected(err) ==
    /\ delPc = "delete"
    /\ delPc' = "idle"
    /\ sessionsError' = CaughtError(err, NotConnectedText)
    /\ Render(currentSessionId, CaughtAvailable(err), currentSession, FALSE,
              detailLoads, {})
    /\ UNCHANGED <<sessions, storedSessionId, srvSessions, listLoads, delId,
                   delClosure, createPc, clearPc, renPc, mountTimer, nhookops>>
    /\ UNCHANGED <<chatVars, docVars, listVars, engVars>>

\* whether removeSession clears the selection (1041)
RemovedIsCurrent == delClosure = delId

\* the state removeSession leaves after its loadSessions (1041-1045, 1054)
DeleteFinished(available) ==
    /\ delPc' = "idle"
    /\ storedSessionId' = (IF RemovedIsCurrent THEN Null ELSE storedSessionId)
    /\ Render(IF RemovedIsCurrent THEN Null ELSE currentSessionId, available,
              IF RemovedIsCurrent THEN Null ELSE currentSession, FALSE,
              detailLoads, {})
    /\ UNCHANGED <<srvSessions, listLoads, delId, delClosure, createPc, clearPc,
                   renPc, mountTimer, nhookops>>
    /\ UNCHANGED <<chatVars, docVars, listVars, engVars>>

\* the loadSessions removeSession awaits (1040) resolved
DeleteListLoaded ==
    /\ delPc = "list"
    /\ sessions' = srvSessions
    /\ sessionsError' = Null
    /\ DeleteFinished(TRUE)

\* the loadSessions removeSession awaits (1040) failed
DeleteListFailed(err) ==
    /\ delPc = "list"
    /\ sessions' = sessions
    /\ sessionsError' = CaughtError(err, sessionsError)
    /\ DeleteFinished(CaughtAvailable(err))

\* clearSessions (1059-1080) up to its await
clearSessions ==
    /\ nhookops < MaxHookOps
    /\ clearPc = "idle"
    /\ nhookops' = nhookops + 1
    /\ clearPc' = "clear"
    /\ Render(currentSessionId, sessionsBackendAvailable, currentSession, TRUE,
              detailLoads, {<<"DELETE", SessionsUrl>>})
    /\ UNCHANGED <<sessions, sessionsError, storedSessionId, srvSessions, listLoads,
                   delPc, delId, delClosure, createPc, renPc, mountTimer>>
    /\ UNCHANGED <<chatVars, docVars, listVars, engVars>>

\* the stored key after the localStorage.removeItem of 1068
ClearedKeepsStoredKey == storedSessionId
ClearedStoredKey == Null

\* clearAllSessions resolved (1062-1068, 1077)
ClearResolved ==
    /\ clearPc = "clear"
    /\ clearPc' = "idle"
    /\ srvSessions' = {}
    /\ sessions' = {}
    /\ sessionsError' = Null
    /\ storedSessionId' = ClearedStoredKey
    /\ Render(Null, TRUE, Null, FALSE, detailLoads, {})
    /\ UNCHANGED <<listLoads, delPc, delId, delClosure, createPc, renPc, mountTimer,
                   nhookops>>
    /\ UNCHANGED <<chatVars, docVars, listVars, engVars>>

\* clearAllSessions rejected (1069-1075)
ClearRejected(err) ==
    /\ clearPc = "clear"
    /\ clearPc' = "idle"
    /\ sessionsError' = CaughtError(err, NotConnectedText)
    /\ Render(currentSessionId, CaughtAvailable(err), currentSession, FALSE,
              detailLoads, {})
    /\ UNCHANGED <<sessions, storedSessionId, srvSessions, listLoads, delPc, delId,
                   delClosure, createPc, renPc, mountTimer, nhookops>>
    /\ UNCHANGED <<chatVars, docVars, listVars, engVars>>

\* renameSession (1012-1031) up to its first await
renameSession(s) ==
    /\ nhookops < MaxHookOps
    /\ renPc = "idle"
    /\ nhookops' = nhookops + 1
    /\ renPc' = "rename"
    /\ Render(currentSessionId, sessionsBackendAvailable, currentSession, TRUE,
              detailLoads, {<<"PUT", UpdateTitleUrl(s)>>})
    /\ UNCHANGED <<sessions, sessionsError, storedSessionId, srvSessions, listLoads,
                   delPc, delId, delClosure, createPc, clearPc, mountTimer>>
    /\ UNCHANGED <<chatVars, docVars, listVars, engVars>>

\* updateSessionTitle resolved (1015-1018): loadSessions is awaited
RenameResolved ==
    /\ renPc = "rename"
    /\ renPc' = "list"
    /\ sessionsError' = Null
    /\ Render(currentSessionId, TRUE, currentSession, TRUE, detailLoads,
              {<<"GET", SessionsUrl>>})
    /\ UNCHANGED <<sessions, storedSessionId, srvSessions, listLoads, delPc, delId,
                   delClosure, createPc, clearPc, mountTimer, nhookops>>
    /\ UNCHANGED <<chatVars, docVars, listVars, engVars>>

\* updateSessionTitle rejected (1022-1028)
RenameRejected(err) ==
    /\ renPc = "rename"
    /\ renPc' = "idle"
    /\ sessionsError' = CaughtError(err, NotConnectedText)
    /\ Render(currentSessionId, CaughtAvailable(err), currentSession, FALSE,
              detailLoads, {})
    /\ UNCHANGED <<sessions, storedSessionId, srvSessions, listLoads, delPc, delId,
                   delClosure, createPc, clearPc, mountTimer, nhookops>>
    /\ UNCHANGED <<chatVars, docVars, listVars, engVars>>

\* the loadSessions renameSession awaits (1018) settled; the title of the
\* loaded detail changes (1019-1021), its session_id does not
RenameListSettled(ok, err) ==
    /\ renPc = "list"
    /\ renPc' = "idle"
    /\ sessions' = (IF ok THEN srvSessions ELSE sessions)
    /\ sessionsError' = (IF ok THEN Null ELSE CaughtError(err, sessionsError))
    /\ Render(currentSessionId, IF ok THEN TRUE ELSE CaughtAvailable(err),
              currentSession, FALSE, detailLoads, {})
    /\ UNCHANGED <<storedSessionId, srvSessions, listLoads, delPc, delId, delClosure,
                   createPc, clearPc, mountTimer, nhookops>>
    /\ UNCHANGED <<chatVars, docVars, listVars, engVars>>

\* --------------------------------------------------------- specifications

\* The first request of a ChatBox mounted without a session: every input, every
\* response body, every split of the body into chunks.
Init == InitChat(NoSession) /\ InitDocs /\ InitList /\ InitHook /\ InitEngine

Next ==
    \/ \E v \in Inputs : nsub = 0 /\ TypeInput(v)
    \/ \E img \in Images : nsub = 0 /\ SelectImage(img)
    \/ nsub = 0 /\ ~SubmitRejected /\ handleSubmit
    \/ \E body \in Bodies : FetchOk(body)
    \/ FetchNotOk
    \/ FetchRejected
    \/ \E n \in 1..(Len(response) - readPos) : ReadChunk(n)
    \/ ReadDone
    \/ ReadRejected

Spec == Init /\ [][Next]_vars


\* A ChatBox mounted with or without a session whose parent changes the session
\* while requests run; the responses are short and arrive in any split.
ChatBodies == {TokenEvent("a") \o DoneEvent, TokenEvent("a") \o TokenEvent("a")}

InitSessions ==
    /\ InitDocs /\ InitList /\ InitHook /\ InitEngine
    /\ \E s \in {NoSession} \cup SessionIds : InitChat(s)

NextSessions ==
    \/ TypeInput("hi")
    \/ handleSubmit
    \/ OfflineNoticeTimer
    \/ \E body \in ChatBodies : FetchOk(body)
    \/ FetchNotOk
    \/ FetchRejected
    \/ \E n \in 1..(Len(response) - readPos) : ReadChunk(n)
    \/ ReadDone
    \/ ReadRejected
    \/ \E s \in {NoSession} \cup SessionIds : SetSessionId(s)
    \/ \E s \in SessionIds, history \in Histories : HistoryLoaded(s, history)
    \/ \E s \in SessionIds, err \in {FetchFailed, NotFoundError} : HistoryFailed(s, err)

SpecSessions == InitSessions /\ [][NextSessions]_vars

\* the document manager: uploads, URL ingestion and list reloads
InitDocManager == InitChat(NoSession) /\ InitDocs /\ InitList /\ InitHook /\ InitEngine

NextDocs ==
    \/ Refresh
    \/ \E resp \in ListResponses : RefreshLoaded(resp)
    \/ RefreshFailed
    \/ \E open \in BOOLEAN : SetAddDialogOpen(open)
    \/ \E name \in FileNames : handleFileSelect(name)
    \/ \E result \in UploadResults : UploadResolved(result)
    \/ \E err \in IngestErrors : UploadRejected(err)
    \/ \E resp \in ListResponses : UploadReloaded(resp)
    \/ UploadReloadFailed
    \/ \E v \in UrlInputs : SetUrlInput(v)
    \/ handleAddUrl
    \/ \E result \in IngestResults : IngestResolved(result)
    \/ \E err \in IngestErrors : IngestRejected(err)
    \/ \E resp \in ListResponses : UrlReloaded(resp)
    \/ UrlReloadFailed

SpecDocs == InitDocManager /\ [][NextDocs]_vars

\* the engine: one request with its caller, and the Knowledge Index
InitEngineSpec == InitChat(NoSession) /\ InitDocs /\ InitList /\ InitHook /\ InitEngine

NextEngine ==
    \/ SubmitRequest("hi")
    \/ \E res \in RewriteOutcomes : RewriteDone(res)
    \/ \E ps \in PassageLists(1) : AssembleDone(ps)
    \/ StartStreaming
    \/ EmitToken
    \/ CompleteStream
    \/ EngineFailure
    \/ CancelRequest
    \/ \E d \in DocIds, n \in 0..MaxChunks : IndexDocument(d, n)
    \/ \E d \in DocIds : RemoveDocument(d)
    \/ SearchIndex

SpecEngine == InitEngineSpec /\ [][NextEngine]_vars

\* the pipeline of one request whose caller stays connected; every stage
\* ends (each collaborator call has a timeout)
NextPipeline ==
    \/ \E m \in UserMessages : SubmitRequest(m)
    \/ \E res \in RewriteOutcomes : RewriteDone(res)
    \/ \E ps \in PassageLists(MaxPassages) : AssembleDone(ps)
    \/ StartStreaming
    \/ EmitToken
    \/ CompleteStream
    \/ EngineFailure

SpecPipeline ==
    /\ InitEngineSpec
    /\ [][NextPipeline]_vars
    /\ WF_vars(\E res \in RewriteOutcomes : RewriteDone(res))
    /\ WF_vars(\E ps \in PassageLists(MaxPassages) : AssembleDone(ps))
    /\ WF_vars(StartStreaming)
    /\ WF_vars(CompleteStream \/ EngineFailure)

\* ChatBox mounted with a session, every handleSubmit call included: the
\* ones its guard rejects, the offline notice, and the history load of the
\* mount settling at any time
InitSubmit ==
    /\ InitChat("s1") /\ InitDocs /\ InitList /\ InitHook /\ InitEngine

NextSubmit ==
    \/ TypeInput("hi")
    \/ \E img \in Images : SelectImage(img)
    \/ handleSubmit
    \/ OfflineNoticeTimer
    \/ FetchOk(TokenEvent("a") \o DoneEvent)
    \/ FetchNotOk
    \/ FetchRejected
    \/ \E n \in 1..(Len(response) - readPos) : ReadChunk(n)
    \/ ReadDone
    \/ ReadRejected
    \/ \E history \in Histories : HistoryLoaded("s1", history)
    \/ \E err \in {FetchFailed, NotFoundError} : HistoryFailed("s1", err)

SpecSubmit == InitSubmit /\ [][NextSubmit]_vars

\* ChatBox under accepted submits whose fetch, reads and timer all settle: the
\* response ends with done, without a terminal event, or after an error event.
\* A body is finite, so the reads that deliver chunks are finitely many and
\* the read after them resolves with done = true or rejects.
LiveBodies ==
    {TokenEvent("a") \o DoneEvent, TokenEvent("a"), ErrorEvent("boom") \o TokenEvent("a")}

NextLive ==
    \/ TypeInput("hi")
    \/ ~SubmitRejected /\ handleSubmit
    \/ OfflineNoticeTimer
    \/ \E body \in LiveBodies : FetchOk(body)
    \/ FetchNotOk
    \/ FetchRejected
    \/ \E n \in 1..(Len(response) - readPos) : ReadChunk(n)
    \/ ReadDone
    \/ ReadRejected
    \/ \E history \in Histories : HistoryLoaded("s1", history)
    \/ \E err \in {FetchFailed, NotFoundError} : HistoryFailed("s1", err)

SpecLive ==
    /\ InitSubmit
    /\ [][NextLive]_vars
    /\ WF_vars((\E body \in LiveBodies : FetchOk(body)) \/ FetchNotOk \/ FetchRejected)
    /\ WF_vars(ReadDone \/ ReadRejected)
    /\ WF_vars(OfflineNoticeTimer)

\* streamMessage under response bodies the network cuts anywhere.  A token
\* event may carry a data line whose payload is no JSON text, followed by a
\* well-formed data line of the same event.
MalformedData == "{\"tok"

TokenEventAfterMalformed(t) ==
    LET data == TokenJson(t)
        half == Len(data) \div 2
        bad == Len(MalformedData) \div 2
    IN  <<"event: ",
          "token\n",
          "data: " \o SubSeq(MalformedData, 1, bad),
          SubSeq(MalformedData, bad + 1, Len(MalformedData)) \o "\n",
          "data: " \o SubSeq(data, 1, half),
          SubSeq(data, half + 1, Len(data)) \o "\n",
          "\n">>

StreamBodies ==
    {TokenEvent("a") \o TokenEvent("1") \o DoneEvent,
     TokenEventAfterMalformed("a") \o DoneEvent,
     TokenEvent("a") \o TokenEventAfterMalformed("1"),
     ErrorEvent("boom") \o TokenEvent("a")}

NextStream ==
    \/ TypeInput("hi")
    \/ nsub = 0 /\ ~SubmitRejected /\ handleSubmit
    \/ \E body \in StreamBodies : FetchOk(body)
    \/ FetchNotOk
    \/ FetchRejected
    \/ \E n \in 1..(Len(response) - readPos) : ReadChunk(n)
    \/ ReadDone
    \/ ReadRejected

SpecStream == Init /\ [][NextStream]_vars

\* useSessions under calls of the operations it returns: the session list's
\* rows (SessionList 134, 160) are there while isLoading is false, the
\* "new chat" button (App.tsx 127-134) always
SessionApiErrors(what) == {FetchFailed, SessionApiError(what)}

NextHook ==
    \/ MountTimerFires
    \/ ListLoaded
    \/ \E err \in SessionApiErrors("fetch sessions") : ListFailed(err)
    \/ \E s \in HookSessionIds : DetailLoaded(s)
    \/ \E s \in HookSessionIds, err \in SessionApiErrors("fetch session") : DetailFailed(s, err)
    \/ \E s \in sessions : ~sessionsLoading /\ switchSession(s)
    \/ createNewSession
    \/ CreateResolved
    \/ \E err \in SessionApiErrors("create session") : CreateRejected(err)
    \/ CreateListLoaded
    \/ \E err \in SessionApiErrors("fetch sessions") : CreateListFailed(err)
    \/ \E s \in sessions : ~sessionsLoading /\ removeSession(s)
    \/ DeleteResolved
    \/ \E err \in SessionApiErrors("delete session") : DeleteRejected(err)
    \/ DeleteListLoaded
    \/ \E err \in SessionApiErrors("fetch sessions") : DeleteListFailed(err)
    \/ clearSessions
    \/ ClearResolved
    \/ \E err \in SessionApiErrors("clear sessions") : ClearRejected(err)
    \/ \E s \in sessions : renameSession(s)
    \/ RenameResolved
    \/ \E err \in SessionApiErrors("update session title") : RenameRejected(err)
    \/ \E ok \in BOOLEAN, err \in SessionApiErrors("fetch sessions") : RenameListSettled(ok, err)

SpecHook == Init /\ [][NextHook]_vars

\* useSessions mounted in a browser whose localStorage holds the id of the
\* session of an earlier visit (1084-1087)
InitHookStored ==
    /\ InitChat(NoSession) /\ InitDocs /\ InitList /\ InitEngine
    /\ InitHookWith("s1", SessionIds)

SpecHookStored == InitHookStored /\ [][NextHook]_vars

\* the same mount followed one operation further than MaxHookOps allows: the
\* count of operations starts one lower.  The session of the earlier visit is
\* left by a switch, the selected one is removed, and a third operation fails.
InitHookDeep ==
    /\ InitChat(NoSession) /\ InitDocs /\ InitList /\ InitEngine
    /\ InitHookMounted("s1", SessionIds)
    /\ nhookops = -1

NextHookDeep ==
    \/ MountTimerFires
    \/ ListLoaded
    \/ \E s \in HookSessionIds : DetailLoaded(s)
    \/ \E s \in HookSessionIds : DetailFailed(s, SessionApiError("fetch session"))
    \/ \E s \in sessions : ~sessionsLoading /\ s # currentSessionId /\ switchSession(s)
    \/ \E s \in sessions : ~sessionsLoading /\ s = currentSessionId /\ removeSession(s)
    \/ DeleteResolved
    \/ \E err \in SessionApiErrors("delete session") : DeleteRejected(err)
    \/ DeleteListLoaded
    \/ createNewSession
    \/ CreateResolved
    \/ \E err \in SessionApiErrors("create session") : CreateRejected(err)
    \/ CreateListLoaded

SpecHookDeep == InitHookDeep /\ [][NextHookDeep]_vars

\* DocumentManager's list under sort changes, page clicks, reloads and
\* deletions
NextList ==
    \/ Refresh
    \/ \E resp \in PagedResponses : RefreshLoaded(resp)
    \/ RefreshFailed
    \/ \E sort \in SortTypes : setSortType(sort)
    \/ PreviousPage
    \/ NextPage
    \/ Len(paginatedDocuments) > 0 /\ confirmDelete(paginatedDocuments[1])
    \/ CloseDeleteDialog
    \/ handleDelete
    \/ DocDeleteResolved
    \/ \E err \in DocDeleteErrors : DocDeleteRejected(err)
    \/ \E resp \in PagedResponses : DocDeleteReloaded(resp)
    \/ DocDeleteReloadFailed

SpecList == Init /\ [][NextList]_vars

\* ------------------------------------------------------------------ claims

\* the text the generator has yielded so far, in order
RECURSIVE YieldedText(_)
YieldedText(tr) ==
    IF Len(tr) = 0 THEN ""
    ELSE (IF Head(tr).k = "yield" THEN Head(tr).v ELSE "") \o YieldedText(Tail(tr))

YieldCount(tr) == Cardinality({i \in DOMAIN tr : tr[i].k = "yield"})

LastContent == messages[Len(messages)].content

\* C1: an error event with message M is terminal: no token is yielded after
\* it, and the request ends as a failure whose error text carries M in the
\* assistant placeholder.
C1_ErrorEventIsTerminal ==
    \A i \in DOMAIN trace :
        trace[i].k = "error" =>
            /\ \A j \in DOMAIN trace : j > i => trace[j].k # "yield"
            /\ outcome # "completed"
            /\ outcome = "failed" => LastContent = "Error: " \o trace[i].v

\* C2: a done event ends the response: the return it causes is the last thing
\* the generator does (no token is yielded after it, in the same chunk or in a
\* later one), the request is then complete, and a request reports at most one
\* terminal outcome.
C2_DoneEndsResponse ==
    /\ \A i \in DOMAIN trace :
           trace[i].k = "return" =>
               /\ i = Len(trace)
               /\ pc = "idle"
               /\ outcome = "completed"
    /\ Cardinality({i \in DOMAIN trace : trace[i].k \in {"return", "end", "throw"}}) <= 1

\* C2, its case: a done event was processed in a chunk that also held every
\* line of a following token event
C2_Witness ==
    /\ response = DoneEvent \o TokenEvent("a")
    /\ readPos = Len(response)
    /\ trace = <<TraceEvent("return", "")>>
    /\ outcome = "completed"

\* C3: when a stream completes, the assistant message holds the concatenation,
\* in order, of the text of every token of the response, whatever the text.
C3_TokensConcatenated ==
    outcome = "completed" => LastContent = YieldedText(trace)

\* C4: when a stream's metadata event carries a session id S other than the one
\* the message was sent with, ChatBox has called onSessionChange(S) by the time
\* the stream completes.
C4_SessionAdopted ==
    outcome = "completed" =>
        \A i \in DOMAIN trace :
            (trace[i].k = "metadata" /\ trace[i].v # sessionId) =>
                \E j \in DOMAIN sessionChangeCalls : sessionChangeCalls[j] = trace[i].v

\* C5: a step of a request in flight (a response, a chunk, the end or the
\* failure of its stream) modifies no message other than the assistant
\* placeholder the request created, whatever list is displayed by then.
C5_NoCrossTalk ==
    [][(/\ pc \in {"fetch", "stream"}
        /\ sessionId' = sessionId
        /\ historyLoads' = historyLoads)
       => /\ Len(messages') = Len(messages)
          /\ \A i \in DOMAIN messages :
                 (messages[i].timestamp # nsub \/ messages[i].role # "assistant")
                     => messages'[i] = messages[i]]_vars

\* C6: while a stream is being read, the displayed assistant message already
\* holds every token whose data line has been received.
C6_FragmentsAsProduced ==
    pc = "stream" => LastContent = YieldedText(trace)

\* C7: in a ChatBox whose session has not changed since it was mounted, no step
\* removes or reorders a message, and an accepted submit appends exactly the
\* user message followed by one assistant message.
C7_AppendOrder ==
    [][nswitch' = 0
       => /\ Len(messages') >= Len(messages)
          /\ \A i \in DOMAIN messages :
                 /\ messages'[i].role = messages[i].role
                 /\ messages'[i].timestamp = messages[i].timestamp
          /\ nsub' = nsub + 1
                 => /\ Len(messages') = Len(messages) + 2
                    /\ messages'[Len(messages) + 1].role = "user"
                    /\ messages'[Len(messages) + 2].role = "assistant"]_vars

\* C8: for every non-empty trimmed URL that starts with neither http:// nor
\* https://, handleAddUrl sets an error, sends no ingest request and leaves
\* documents, totalCount, totalChunks and the URL input unchanged.
C8_UnsupportedSchemeRejected ==
    [][(/\ handleAddUrl
        /\ Trim(urlInput) # ""
        /\ ~StartsWith(Trim(urlInput), "http://")
        /\ ~StartsWith(Trim(urlInput), "https://"))
       => /\ Truthy(docError')
          /\ ingestRequests' = ingestRequests
          /\ ~isAddingUrl'
          /\ urlPc' = urlPc
          /\ UNCHANGED <<documents, totalCount, totalChunks, urlInput>>]_vars

\* C8, its case: handleAddUrl has rejected a URL of another scheme, typed
\* with spaces around it, and nothing was sent
C8_Witness ==
    /\ urlInput = " ftp://a "
    /\ docError = InvalidUrlText
    /\ ingestRequests = <<>>
    /\ urlPc = "idle"

\* C9: when an upload or a URL ingestion settles, a ready status sets the
\* success message and starts the reload of the list; anything else (another
\* status, no status, a thrown error) sets the error, starts no reload and
\* leaves isUploading / isAddingUrl false.
C9_IngestionOutcome ==
    [][/\ \A r \in UploadResults :
              UploadResolved(r) =>
                  IF r.status = "ready"
                    THEN successMsg' # Null /\ uploadPc' = "reload"
                    ELSE Truthy(docError') /\ uploadPc' = "idle" /\ ~isUploading'
       /\ \A e \in IngestErrors :
              UploadRejected(e) =>
                  Truthy(docError') /\ uploadPc' = "idle" /\ ~isUploading'
       /\ \A r \in IngestResults :
              IngestResolved(r) =>
                  IF Len(r.documents) > 0 /\ r.documents[1].status = "ready"
                    THEN successMsg' # Null /\ urlPc' = "reload"
                    ELSE Truthy(docError') /\ urlPc' = "idle" /\ ~isAddingUrl'
       /\ \A e \in IngestErrors :
              IngestRejected(e) =>
                  Truthy(docError') /\ urlPc' = "idle" /\ ~isAddingUrl']_vars

\* C10: once the caller has left the session a request was sent for while its
\* stream is in flight, no further token of that request is delivered.
C10_NoTokenAfterCancel ==
    [][(pc = "stream" /\ sessionId # reqSessionId)
       => YieldCount(trace') <= YieldCount(trace)]_vars

C13_IndexRemoveRoundTrip ==
    [][\A d \in DocIds :
           (lastIndexed = d /\ RemoveDocument(d))
               => Stats(kiDocs', kiChunks') = preStats]_vars

\* C13, its case: a document was removed right after it was indexed into an
\* index that held another document
C13_Witness ==
    /\ lastIndexed = RoundTripDone
    /\ preStats.total_documents = 1
    /\ Stats(kiDocs, kiChunks) = preStats

\* C14: when the rewrite call fails, times out or returns empty, the standalone
\* query is the original message, and the pipeline still ends with exactly one
\* terminal event.
C14_RewriteFailureNeverAborts ==
    /\ [](rewriteFailed => standalone = userMessage /\ genState # "None")
    /\ [](Cardinality({i \in DOMAIN events : events[i] \in {"done", "error"}}) <= 1)
    /\ (rewriteFailed ~>
            Cardinality({i \in DOMAIN events : events[i] \in {"done", "error"}}) = 1)

\* C14, its case: the rewrite call timed out or failed and the request
\* completed with the original message as its query
C14_Witness ==
    /\ rewriteFailed
    /\ standalone = "what about next month?"
    /\ genState = "Completed"
    /\ events[Len(events)] = "done"

\* C15: the assembled prompt is within the budget, holds whole passages of the
\* ranked list only, and a passage is left out only if every lower-ranked
\* passage is left out too (a duplicate counts as its first occurrence).
C15_AssemblerWithinBudget ==
    stage \in {"generate", "end"} =>
        /\ PromptSize(included) <= Budget
        /\ \A i \in DOMAIN included : \E j \in DOMAIN passages : included[i] = passages[j]
        /\ \A i, j \in DOMAIN passages :
               (/\ i < j
                /\ \A m \in 1..(j - 1) : passages[m].id # passages[j].id
                /\ \E k \in DOMAIN included : included[k].id = passages[j].id)
                   => \E k \in DOMAIN included : included[k].id = passages[i].id

\* C15, its case: the second passage did not fit, and the third, which would
\* have fit, was dropped with it
C15_Witness ==
    /\ passages = <<[id |-> "p2", size |-> 2], [id |-> "p3", size |-> 3],
                    [id |-> "p1", size |-> 1]>>
    /\ included = <<[id |-> "p2", size |-> 2]>>

\* C16: when a request is sent for a message that is empty after trimming
\* together with non-blank image data, the message field of the request body
\* is a single space; otherwise it is the trimmed message.
C16_ImageOnlyPlaceholder ==
    [][Len(requests') = Len(requests) + 1 =>
          requests'[Len(requests')].message =
              (IF Trim(input) = "" /\ Trim(selectedImageData) # ""
               THEN " "
               ELSE Trim(input))]_vars

\* C17: a handleSubmit call made while isLoading is true, or with blank text
\* and no image, changes nothing the user or the server can see: no message
\* is appended, the input and the image are kept, no request is sent and no
\* second stream or timer is started.
C17_RejectedSubmitIsNoOp ==
    [][(handleSubmit /\ (isLoading \/ (Trim(input) = "" /\ selectedImageData = "")))
          => UNCHANGED <<sessionId, messages, input, selectedImageData,
                         selectedImageFormat, isLoading, isLoadingHistory,
                         isBackendAvailable, pc, reqSessionId, fullResponse,
                         newSessionId, buffer, currentEvent, sessionIdRef, response,
                         readPos, historyLoads, requests, trace, outcome,
                         sessionChangeCalls, refreshCalls, nsub>>]_vars

\* C17, its case: handleSubmit was called while a stream was open, and the
\* one request sent is still the only one
C17_Witness ==
    /\ rejects = <<TRUE>>
    /\ isLoading
    /\ pc \in {"fetch", "stream"}
    /\ Len(requests) = 1

\* C18: when removeSession(id) completes after a successful delete,
\* currentSessionId is not id and the stored current-session key does not hold
\* id, whatever switchSession and createNewSession calls were made while it
\* was in flight, and a selection of another session is left as it is.
C18_DeletedNeverSelected ==
    [][(delPc = "list" /\ delPc' = "idle")
          => /\ currentSessionId' # delId
             /\ storedSessionId' # delId
             /\ (currentSessionId # delId => currentSessionId' = currentSessionId)]_vars

\* C19: whenever no session-detail load is in flight, currentSession is null
\* or is the detail of the session currentSessionId names.
C19_NoStaleSessionData ==
    (\A s \in HookSessionIds : detailLoads[s] = 0)
        => currentSession \in {Null, currentSessionId}

\* C20: the step in which clearSessions succeeds leaves sessions empty,
\* currentSessionId and currentSession null and the stored current-session
\* key removed; and no request of the session operations ever goes to a chat
\* endpoint.
C20_ClearEmptiesClientState ==
    /\ [][(clearPc = "clear" /\ clearPc' = "idle" /\ sessionsError' = Null)
             => /\ sessions' = {}
                /\ currentSessionId' = Null
                /\ currentSession' = Null
                /\ storedSessionId' = Null]_vars
    /\ [](\A c \in apiCalls : c[2] \notin {StreamUrl, ChatUrl})

\* C20, its case: a session had been selected and stored, clearSessions has
\* succeeded, and nothing is selected, stored or listed any more
C20_Witness ==
    /\ <<"GET", HistoryUrl("s1")>> \in apiCalls
    /\ <<"DELETE", SessionsUrl>> \in apiCalls
    /\ clearPc = "idle"
    /\ srvSessions = {}
    /\ sessions = {}
    /\ currentSessionId = Null
    /\ storedSessionId = Null

\* the least k with k * 9 >= n
C21_Ceil9(n) == CHOOSE k \in 0..n : k * 9 >= n /\ \A j \in 0..(k - 1) : j * 9 < n

StreamStart ==
    [currentEvent |-> "", sessionIdRef |-> NoSession, returned |-> FALSE,
     fullResponse |-> "", newSessionId |-> Undefined, messages |-> <<>>,
     trace |-> <<>>, calls |-> <<>>]

CompleteLines(text) ==
    LET lines == SplitLines(text) IN SubSeq(lines, 1, Len(lines) - 1)

\* the text of the response that has been read
TextRead == Decode(response, 1, readPos)

\* the trace the request has when the whole-text parse w ends with the body
EndedTrace(w) ==
    IF w.returned THEN w.trace ELSE Append(w.trace, TraceEvent("end", ""))

\* C22: the tokens yielded and the way the stream ends depend on the text that
\* has been read only, not on the chunks it was read in: at every point of a
\* stream they are those of parsing that text as one chunk, and a completed
\* request has the trace, and its last message the text, of the one-chunk parse.
C22_ChunkingIndependent ==
    LET w == GenLines(StreamStart, CompleteLines(TextRead))
    IN  /\ pc = "stream"
            => /\ ~w.returned
               /\ trace = w.trace
               /\ fullResponse = w.fullResponse
               /\ currentEvent = w.currentEvent
        /\ outcome = "completed"
            => /\ trace = EndedTrace(w)
               /\ messages[Len(messages)].content = w.fullResponse

\* C22, its case: a chunk has ended inside the data payload of the second
\* token event, after the first token was yielded
C22_Witness ==
    /\ pc = "stream"
    /\ response = TokenEvent("a") \o TokenEvent("1") \o DoneEvent
    /\ buffer = TokenEvent("1")[3]
    /\ trace = <<TraceEvent("yield", "a")>>

\* a data line whose payload JSON.parse rejects
IsMalformedDataLine(line) ==
    /\ Trim(line) # ""
    /\ ~StartsWith(line, "event: ")
    /\ StartsWith(line, "data: ")
    /\ ~JsonParseData(Slice(line, 6)).valid

RECURSIVE WithoutMalformed(_)
WithoutMalformed(lines) ==
    IF Len(lines) = 0 THEN <<>>
    ELSE (IF IsMalformedDataLine(Head(lines)) THEN <<>> ELSE <<Head(lines)>>)
         \o WithoutMalformed(Tail(lines))

\* C23: a data line whose payload is no valid JSON is skipped: the stream goes
\* on as if the line had not been sent (nothing yielded for it, no error, the
\* event type kept, every later token yielded), and a chunk whose complete
\* lines are all malformed data lines changes neither the trace, the messages,
\* the event type nor the state of the request.
C23_MalformedLineSkipped ==
    /\ [](LET w == GenLines(StreamStart, WithoutMalformed(CompleteLines(TextRead)))
          IN  /\ pc = "stream" => (trace = w.trace /\ currentEvent = w.currentEvent)
              /\ outcome = "completed" => trace = EndedTrace(w))
    /\ [][(/\ pc = "stream"
           /\ readPos' > readPos
           /\ LET lines == CompleteLines(buffer \o Decode(response, readPos + 1, readPos'))
              IN  lines # <<>> /\ WithoutMalformed(lines) = <<>>)
              => /\ pc' = "stream"
                 /\ trace' = trace
                 /\ messages' = messages
                 /\ currentEvent' = currentEvent
                 /\ outcome' = outcome
                 /\ isLoading' = isLoading]_vars

\* C23, its case: the token of the data line after a malformed one was
\* yielded without a new event line, and the stream ended with done
C23_Witness ==
    /\ outcome = "completed"
    /\ response = TokenEventAfterMalformed("a") \o DoneEvent
    /\ trace = <<TraceEvent("yield", "a"), TraceEvent("return", "")>>
    /\ messages[Len(messages)].content = "a"

\* the step in which a running submit ends
SubmitEnds == isLoading /\ ~isLoading'

\* the for-await loop of the submit ended without an exception: the generator
\* returned at done or the body ended
EndsNormally ==
    /\ SubmitEnds
    /\ pc = "stream"
    /\ trace' # <<>>
    /\ trace'[Len(trace')].k \in {"return", "end"}

C25_StoredMirrorsSelection ==
    /\ [](storedSessionId = currentSessionId)
    /\ [][(storedSessionId # Null /\ storedSessionId' = Null)
             => /\ currentSessionId' = Null
                /\ \/ delPc = "list" /\ delPc' = "idle"
                   \/ clearPc = "clear" /\ clearPc' = "idle"]_vars

\* C25, its case: s1 was selected by switchSession and stored, removeSession
\* of s1 has completed, and neither a selection nor the key is left
C25_Witness ==
    /\ <<"GET", HistoryUrl("s1")>> \in apiCalls
    /\ <<"DELETE", HistoryUrl("s1")>> \in apiCalls
    /\ delPc = "idle"
    /\ "s1" \notin srvSessions
    /\ sessions # {}
    /\ currentSessionId = Null
    /\ storedSessionId = Null

\* the step in which the backend call of createNewSession, removeSession,
\* clearSessions or renameSession is rejected
SessionCallFails ==
    \/ createPc = "create" /\ createPc' = "idle"
    \/ delPc = "delete" /\ delPc' = "idle"
    \/ clearPc = "clear" /\ clearPc' = "idle" /\ sessionsError' # Null
    \/ renPc = "rename" /\ renPc' = "idle"

\* C26: a step in which the backend call of a session operation fails leaves
\* sessions, currentSessionId, currentSession and the stored key unchanged,
\* sets isLoading to false, and sets isBackendAvailable to false exactly when
\* the error is a network error.
C26_FailureKeepsSessionData ==
    [][SessionCallFails
         => /\ sessions' = sessions
            /\ currentSessionId' = currentSessionId
            /\ currentSession' = currentSession
            /\ storedSessionId' = storedSessionId
            /\ ~sessionsLoading'
            /\ sessionsBackendAvailable' =
                   (IF sessionsError' \in {NotConnectedText, CannotCreateText}
                    THEN FALSE ELSE sessionsBackendAvailable)]_vars

\* C27: a handleSubmit accepted while isBackendAvailable is false sends no
\* request, clears the input and adds no message, and its timer appends the
\* one assistant notice; isBackendAvailable goes from false to true only in a
\* step that settles a history load, never in a step of a submit.
C27_OfflineIsSticky ==
    /\ [][(~isBackendAvailable /\ pc = "idle" /\ pc' # "idle")
             => /\ pc' = "timer"
                /\ requests' = requests
                /\ input' = ""
                /\ messages' = messages]_vars
    /\ [][(pc = "timer" /\ pc' = "idle")
             => /\ messages' = Append(messages, Message("assistant", OfflineNotice, nsub, FALSE))
                /\ requests' = requests]_vars
    /\ [][(~isBackendAvailable /\ isBackendAvailable')
             => /\ \E s \in SessionIds : historyLoads'[s] < historyLoads[s]
                /\ pc' = pc]_vars

\* C28: whenever the delete-confirmation dialog is open and no deletion is in
\* flight, docToDelete is the id of the document whose delete button was
\* clicked; after handleDelete finishes isDeleting is null.
C28_DeleteDialogHasTarget ==
    /\ (deleteConfirmOpen /\ docDelPc = "idle")
           => (docToDelete # Null /\ docToDelete = clickedDoc)
    /\ docDelPc = "idle" => isDeleting = Null

====
